---- MODULE Spec2Model ----
(***************************************************************************)
(* A model of the BlazeVM class manager (load / resolve / link /           *)
(* initialise state machine) and of the interpreter loop with its          *)
(* invocation protocol.                                                    *)
(*                                                                         *)
(* Option values: an absent record is NoEntry, an absent ClassId or index  *)
(* is NoId, an absent string is NoName.                                    *)
(***************************************************************************)
EXTENDS Integers, Sequences, FiniteSets, TLC

NoEntry == [tag |-> "None"]
NoId == -1
NoName == ""

(* Bounds of the exploration. *)
MaxClassIds == 9
MaxOps == 3

Last(s) == s[Len(s)]
Front(s) == SubSeq(s, 1, Len(s) - 1)
Range(s) == {s[i] : i \in 1..Len(s)}

(***************************************************************************)
(* Class-file constant pool entries (reader::base::constant_pool).         *)
(***************************************************************************)
Utf8Info(s) == [tag |-> "Utf8Info", s |-> s]
ClassInfo(i) == [tag |-> "ClassInfo", name_index |-> i]
MethodRefInfo(c, nt) ==
    [tag |-> "MethodRefInfo", class_index |-> c, name_and_type_index |-> nt]
FieldRefInfo(c, nt) ==
    [tag |-> "FieldRefInfo", class_index |-> c, name_and_type_index |-> nt]
NameAndTypeInfo(n, d) ==
    [tag |-> "NameAndTypeInfo", name_index |-> n, descriptor_index |-> d]
IntegerInfo(v) == [tag |-> "IntegerInfo", value |-> v]
LongInfo(v) == [tag |-> "LongInfo", value |-> v]
CpTombstone == [tag |-> "Tombstone"]

(* reader ConstantPool::get: the Vec holds raw index i at position i - 1. *)
cp_get(cp, index) ==
    IF index = 0 \/ index >= Len(cp) THEN NoEntry ELSE cp[index]

cp_get_info(cp, index) ==
    LET e == cp_get(cp, index)
    IN IF e.tag \in {"None", "Tombstone"} THEN NoEntry ELSE e

cp_get_utf8_string(cp, index) ==
    LET e == cp_get_info(cp, index)
    IN IF e.tag = "Utf8Info" THEN e.s ELSE NoName

cp_get_class_name(cp, index) ==
    LET e == cp_get_info(cp, index)
    IN IF e.tag = "ClassInfo" THEN cp_get_utf8_string(cp, e.name_index) ELSE NoName

cp_get_name_and_type(cp, index) ==
    LET e == cp_get_info(cp, index)
    IN IF e.tag = "NameAndTypeInfo"
          /\ cp_get_utf8_string(cp, e.name_index) # NoName
          /\ cp_get_utf8_string(cp, e.descriptor_index) # NoName
       THEN <<cp_get_utf8_string(cp, e.name_index),
              cp_get_utf8_string(cp, e.descriptor_index)>>
       ELSE <<NoName, NoName>>

(***************************************************************************)
(* Class files on the class path.  Code is the byte sequence of the Code   *)
(* attribute; the opcodes are those of opcode::read_instruction.           *)
(***************************************************************************)
OP_ICONST_1 == 4
OP_ICONST_2 == 5
OP_ICONST_3 == 6
OP_POP == 87
OP_DUP == 89
OP_IADD == 96
OP_IRETURN == 172
OP_RETURN == 177
OP_INVOKEVIRTUAL == 182
OP_INVOKESPECIAL == 183
OP_INVOKESTATIC == 184
OP_NEW == 187
OP_ATHROW == 191
OP_LCONST_0 == 9
OP_LCONST_1 == 10
OP_DCONST_1 == 15
OP_ILOAD_0 == 26
OP_ILOAD_1 == 27
OP_LSTORE == 55
OP_DSTORE == 57
OP_LSTORE_0 == 63
OP_LSTORE_1 == 64
OP_LSTORE_2 == 65
OP_LSTORE_3 == 66
OP_DSTORE_0 == 71
OP_DSTORE_1 == 72
OP_DSTORE_2 == 73
OP_DSTORE_3 == 74
OP_POP2 == 88
OP_DUP_X2 == 91
OP_IDIV == 108
OP_LDIV == 109
OP_IREM == 112
OP_LREM == 113
OP_GETSTATIC == 178
OP_PUTSTATIC == 179
OP_ISHL == 120
OP_LSHL == 121
OP_ISHR == 122
OP_LSHR == 123
OP_IUSHR == 124
OP_LUSHR == 125
OP_TABLESWITCH == 170
OP_LOOKUPSWITCH == 171
OP_FCONST_0 == 11
OP_FCONST_1 == 12
OP_DCONST_0 == 14
OP_FDIV == 110
OP_DDIV == 111
OP_FCMPL == 149
OP_FCMPG == 150
OP_DCMPL == 151
OP_DCMPG == 152
OP_IALOAD == 46
OP_IASTORE == 79
OP_NEWARRAY == 188
OP_ARRAYLENGTH == 190

CodeAttr(name_index, max_stack, max_locals, code) ==
    [attribute_name_index |-> name_index,
     info |-> [max_stack |-> max_stack, max_locals |-> max_locals, code |-> code]]

MethodInfo(flags, name_index, descriptor_index, attributes) ==
    [access_flags |-> flags, name_index |-> name_index,
     descriptor_index |-> descriptor_index, attributes |-> attributes]

FieldInfo(flags, name_index, descriptor_index, attributes) ==
    [access_flags |-> flags, name_index |-> name_index,
     descriptor_index |-> descriptor_index, attributes |-> attributes]

MkClassFile(cp, this_class, super_class, interfaces, fields, methods) ==
    [constant_pool |-> cp, this_class |-> this_class, super_class |-> super_class,
     interfaces |-> interfaces, fields |-> fields, methods |-> methods]

(* class A { int m() { return 1; } } *)
ClassFileA ==
    MkClassFile(
        <<ClassInfo(2), Utf8Info("A"), Utf8Info("<init>"), Utf8Info("()V"),
          Utf8Info("m"), Utf8Info("()I"), Utf8Info("Code"), Utf8Info("SourceFile")>>,
        1, 0, <<>>, <<>>,
        <<MethodInfo({"Public"}, 3, 4, <<CodeAttr(7, 0, 1, <<OP_RETURN>>)>>),
          MethodInfo({"Public"}, 5, 6, <<CodeAttr(7, 1, 1, <<OP_ICONST_1, OP_IRETURN>>)>>)>>)

(* class B extends A { int m() { return 2; } } *)
ClassFileB ==
    MkClassFile(
        <<ClassInfo(2), Utf8Info("B"), ClassInfo(4), Utf8Info("A"),
          Utf8Info("<init>"), Utf8Info("()V"), Utf8Info("m"), Utf8Info("()I"),
          Utf8Info("Code"), Utf8Info("SourceFile")>>,
        1, 3, <<>>, <<>>,
        <<MethodInfo({"Public"}, 5, 6, <<CodeAttr(9, 0, 1, <<OP_RETURN>>)>>),
          MethodInfo({"Public"}, 7, 8, <<CodeAttr(9, 1, 1, <<OP_ICONST_2, OP_IRETURN>>)>>)>>)

(* class Main {
     static void main() { new B().m() through the reference A.m; sum(); }
     static int sum() { return 2 + 3; } }                                   *)
ClassFileMain ==
    MkClassFile(
        <<ClassInfo(2), Utf8Info("Main"), ClassInfo(4), Utf8Info("A"),
          ClassInfo(6), Utf8Info("B"),
          MethodRefInfo(5, 10), MethodRefInfo(3, 11), MethodRefInfo(1, 12),
          NameAndTypeInfo(13, 14), NameAndTypeInfo(15, 16), NameAndTypeInfo(17, 16),
          Utf8Info("<init>"), Utf8Info("()V"), Utf8Info("m"), Utf8Info("()I"),
          Utf8Info("sum"), Utf8Info("main"), Utf8Info("([Ljava/lang/String;)V"),
          Utf8Info("Code"), Utf8Info("SourceFile")>>,
        1, 0, <<>>, <<>>,
        <<MethodInfo({"Public", "Static"}, 18, 14,
            <<CodeAttr(20, 2, 1,
                <<OP_NEW, 0, 5, OP_DUP, OP_INVOKESPECIAL, 0, 7,
                  OP_INVOKEVIRTUAL, 0, 8, OP_POP,
                  OP_INVOKESTATIC, 0, 9, OP_POP, OP_RETURN>>)>>),
          MethodInfo({"Public", "Static"}, 17, 16,
            <<CodeAttr(20, 2, 0,
                <<OP_ICONST_2, OP_ICONST_3, OP_IADD, OP_IRETURN>>)>>)>>)

(* class F { static { throw ...; } } : the initializer ends with an error. *)
ClassFileF ==
    MkClassFile(
        <<ClassInfo(2), Utf8Info("F"), Utf8Info("<clinit>"), Utf8Info("()V"),
          Utf8Info("Code"), Utf8Info("SourceFile")>>,
        1, 0, <<>>, <<>>,
        <<MethodInfo({"Static"}, 3, 4, <<CodeAttr(5, 1, 0, <<OP_ATHROW>>)>>)>>)

(* class G extends F {} *)
ClassFileG ==
    MkClassFile(
        <<ClassInfo(2), Utf8Info("G"), ClassInfo(4), Utf8Info("F"),
          Utf8Info("SourceFile")>>,
        1, 3, <<>>, <<>>, <<>>)

(* class P extends Q {} and class Q extends P {} : a dependency cycle. *)
ClassFileP ==
    MkClassFile(
        <<ClassInfo(2), Utf8Info("P"), ClassInfo(4), Utf8Info("Q"),
          Utf8Info("SourceFile")>>,
        1, 3, <<>>, <<>>, <<>>)

ClassFileQ ==
    MkClassFile(
        <<ClassInfo(2), Utf8Info("Q"), ClassInfo(4), Utf8Info("P"),
          Utf8Info("SourceFile")>>,
        1, 3, <<>>, <<>>, <<>>)

(* class V { static { new W(); } }, class U extends V {}, class W extends U {} *)
ClassFileV ==
    MkClassFile(
        <<ClassInfo(2), Utf8Info("V"), ClassInfo(4), Utf8Info("W"),
          Utf8Info("<clinit>"), Utf8Info("()V"), Utf8Info("Code"),
          Utf8Info("SourceFile")>>,
        1, 0, <<>>, <<>>,
        <<MethodInfo({"Static"}, 5, 6,
            <<CodeAttr(7, 1, 0, <<OP_NEW, 0, 3, OP_POP, OP_RETURN>>)>>)>>)

ClassFileU ==
    MkClassFile(
        <<ClassInfo(2), Utf8Info("U"), ClassInfo(4), Utf8Info("V"),
          Utf8Info("SourceFile")>>,
        1, 3, <<>>, <<>>, <<>>)

ClassFileW ==
    MkClassFile(
        <<ClassInfo(2), Utf8Info("W"), ClassInfo(4), Utf8Info("U"),
          Utf8Info("SourceFile")>>,
        1, 3, <<>>, <<>>, <<>>)

(* class Ops: one static method per small program; each runs a few        *)
(* instructions on its int arguments, on constants or on the static fields *)
(* of D and K.  inst(J)V is the only instance method.                      *)
ClassFileOps ==
    MkClassFile(
        <<ClassInfo(2), Utf8Info("Ops"), Utf8Info("Code"),
          Utf8Info("div"), Utf8Info("(II)V"), Utf8Info("rem"),
          Utf8Info("ldiv01"), Utf8Info("()V"), Utf8Info("ldiv10"),
          Utf8Info("lrem01"), Utf8Info("lrem10"), Utf8Info("pop2w"),
          Utf8Info("pop2nn"), Utf8Info("pop2wn"), Utf8Info("popw"),
          Utf8Info("dupnnn"), Utf8Info("dupwn"), Utf8Info("lst"),
          Utf8Info("lst0"), Utf8Info("dst"), Utf8Info("dst0"),
          MethodRefInfo(1, 23), NameAndTypeInfo(24, 25),
          Utf8Info("wide"), Utf8Info("(IJI)V"), Utf8Info("callw"),
          MethodRefInfo(1, 28), NameAndTypeInfo(29, 30),
          Utf8Info("inst"), Utf8Info("(J)V"), Utf8Info("calli"),
          Utf8Info("callsp"), Utf8Info("retint"), Utf8Info("()I"),
          FieldRefInfo(36, 38), ClassInfo(37), Utf8Info("K"),
          NameAndTypeInfo(39, 40), Utf8Info("z"), Utf8Info("I"),
          Utf8Info("getk"), FieldRefInfo(43, 45), ClassInfo(44),
          Utf8Info("D"), NameAndTypeInfo(46, 40), Utf8Info("y"),
          Utf8Info("gety"), FieldRefInfo(43, 49),
          NameAndTypeInfo(50, 40), Utf8Info("x"), Utf8Info("putx"),
          Utf8Info("puty"), Utf8Info("shl"), Utf8Info("shr"),
          Utf8Info("ushr"), Utf8Info("lshl"), Utf8Info("lshr"),
          Utf8Info("lushr"), Utf8Info("lshll"), Utf8Info("lshrl"),
          Utf8Info("tsw"), Utf8Info("(I)V"), Utf8Info("tsw0"),
          Utf8Info("lsw"), Utf8Info("lsw3"), Utf8Info("fcmplnan"),
          Utf8Info("fcmpgnan"), Utf8Info("fcmpgnan2"),
          Utf8Info("dcmplnan"), Utf8Info("dcmpgnan"),
          Utf8Info("fcmpg01"), Utf8Info("dcmpl10"), Utf8Info("iast"),
          Utf8Info("iald"), Utf8Info("iasl"), Utf8Info("SourceFile")>>,
        1, 0, <<>>,
        <<>>,
        <<
          (* div(II)V *)
          MethodInfo({"Public", "Static"}, 4, 5,
            <<CodeAttr(3, 2, 2,
                <<OP_ILOAD_0, OP_ILOAD_1, OP_IDIV, OP_RETURN>>)>>),
          (* rem(II)V *)
          MethodInfo({"Public", "Static"}, 6, 5,
            <<CodeAttr(3, 2, 2,
                <<OP_ILOAD_0, OP_ILOAD_1, OP_IREM, OP_RETURN>>)>>),
          (* ldiv01()V *)
          MethodInfo({"Public", "Static"}, 7, 8,
            <<CodeAttr(3, 4, 0,
                <<OP_LCONST_0, OP_LCONST_1, OP_LDIV, OP_RETURN>>)>>),
          (* ldiv10()V *)
          MethodInfo({"Public", "Static"}, 9, 8,
            <<CodeAttr(3, 4, 0,
                <<OP_LCONST_1, OP_LCONST_0, OP_LDIV, OP_RETURN>>)>>),
          (* lrem01()V *)
          MethodInfo({"Public", "Static"}, 10, 8,
            <<CodeAttr(3, 4, 0,
                <<OP_LCONST_0, OP_LCONST_1, OP_LREM, OP_RETURN>>)>>),
          (* lrem10()V *)
          MethodInfo({"Public", "Static"}, 11, 8,
            <<CodeAttr(3, 4, 0,
                <<OP_LCONST_1, OP_LCONST_0, OP_LREM, OP_RETURN>>)>>),
          (* pop2w()V *)
          MethodInfo({"Public", "Static"}, 12, 8,
            <<CodeAttr(3, 2, 0,
                <<OP_LCONST_1, OP_POP2, OP_RETURN>>)>>),
          (* pop2nn()V *)
          MethodInfo({"Public", "Static"}, 13, 8,
            <<CodeAttr(3, 2, 0,
                <<OP_ICONST_1, OP_ICONST_2, OP_POP2, OP_RETURN>>)>>),
          (* pop2wn()V *)
          MethodInfo({"Public", "Static"}, 14, 8,
            <<CodeAttr(3, 3, 0,
                <<OP_LCONST_1, OP_ICONST_1, OP_POP2, OP_RETURN>>)>>),
          (* popw()V *)
          MethodInfo({"Public", "Static"}, 15, 8,
            <<CodeAttr(3, 2, 0,
                <<OP_DCONST_1, OP_POP, OP_RETURN>>)>>),
          (* dupnnn()V *)
          MethodInfo({"Public", "Static"}, 16, 8,
            <<CodeAttr(3, 4, 0,
                <<OP_ICONST_1, OP_ICONST_2, OP_ICONST_3, OP_DUP_X2, OP_RETURN>>)>>),
          (* dupwn()V *)
          MethodInfo({"Public", "Static"}, 17, 8,
            <<CodeAttr(3, 4, 0,
                <<OP_LCONST_1, OP_ICONST_1, OP_DUP_X2, OP_RETURN>>)>>),
          (* lst(II)V *)
          MethodInfo({"Public", "Static"}, 18, 5,
            <<CodeAttr(3, 2, 2,
                <<OP_LCONST_1, OP_LSTORE, 0, OP_RETURN>>)>>),
          (* lst0()V *)
          MethodInfo({"Public", "Static"}, 19, 8,
            <<CodeAttr(3, 2, 2,
                <<OP_LCONST_1, OP_LSTORE_0, OP_RETURN>>)>>),
          (* dst(II)V *)
          MethodInfo({"Public", "Static"}, 20, 5,
            <<CodeAttr(3, 2, 2,
                <<OP_DCONST_1, OP_DSTORE, 0, OP_RETURN>>)>>),
          (* dst0()V *)
          MethodInfo({"Public", "Static"}, 21, 8,
            <<CodeAttr(3, 2, 2,
                <<OP_DCONST_1, OP_DSTORE_0, OP_RETURN>>)>>),
          (* callw()V *)
          MethodInfo({"Public", "Static"}, 26, 8,
            <<CodeAttr(3, 4, 0,
                <<OP_ICONST_2, OP_LCONST_1, OP_ICONST_3, OP_INVOKESTATIC, 0,
                  22, OP_RETURN>>)>>),
          (* wide(IJI)V *)
          MethodInfo({"Public", "Static"}, 24, 25,
            <<CodeAttr(3, 0, 4,
                <<OP_RETURN>>)>>),
          (* calli()V *)
          MethodInfo({"Public", "Static"}, 31, 8,
            <<CodeAttr(3, 3, 0,
                <<OP_NEW, 0, 1, OP_LCONST_1, OP_INVOKEVIRTUAL, 0, 27,
                  OP_RETURN>>)>>),
          (* callsp()V *)
          MethodInfo({"Public", "Static"}, 32, 8,
            <<CodeAttr(3, 3, 0,
                <<OP_NEW, 0, 1, OP_LCONST_0, OP_INVOKESPECIAL, 0, 27,
                  OP_RETURN>>)>>),
          (* inst(J)V *)
          MethodInfo({"Public"}, 29, 30,
            <<CodeAttr(3, 0, 3,
                <<OP_RETURN>>)>>),
          (* retint()I *)
          MethodInfo({"Public", "Static"}, 33, 34,
            <<CodeAttr(3, 1, 0,
                <<OP_ICONST_1, OP_IRETURN>>)>>),
          (* getk()V *)
          MethodInfo({"Public", "Static"}, 41, 8,
            <<CodeAttr(3, 1, 0,
                <<OP_GETSTATIC, 0, 35, OP_POP, OP_RETURN>>)>>),
          (* gety()V *)
          MethodInfo({"Public", "Static"}, 47, 8,
            <<CodeAttr(3, 1, 0,
                <<OP_GETSTATIC, 0, 42, OP_POP, OP_RETURN>>)>>),
          (* putx()V *)
          MethodInfo({"Public", "Static"}, 51, 8,
            <<CodeAttr(3, 1, 0,
                <<OP_ICONST_3, OP_PUTSTATIC, 0, 48, OP_RETURN>>)>>),
          (* puty()V *)
          MethodInfo({"Public", "Static"}, 52, 8,
            <<CodeAttr(3, 1, 0,
                <<OP_ICONST_3, OP_PUTSTATIC, 0, 42, OP_RETURN>>)>>),
          (* shl(II)V *)
          MethodInfo({"Public", "Static"}, 53, 5,
            <<CodeAttr(3, 2, 2,
                <<OP_ILOAD_0, OP_ILOAD_1, OP_ISHL, OP_RETURN>>)>>),
          (* shr(II)V *)
          MethodInfo({"Public", "Static"}, 54, 5,
            <<CodeAttr(3, 2, 2,
                <<OP_ILOAD_0, OP_ILOAD_1, OP_ISHR, OP_RETURN>>)>>),
          (* ushr()V *)
          MethodInfo({"Public", "Static"}, 55, 8,
            <<CodeAttr(3, 2, 0,
                <<OP_ICONST_2, OP_ICONST_1, OP_IUSHR, OP_RETURN>>)>>),
          (* lshl()V *)
          MethodInfo({"Public", "Static"}, 56, 8,
            <<CodeAttr(3, 3, 0,
                <<OP_LCONST_1, OP_ICONST_2, OP_LSHL, OP_RETURN>>)>>),
          (* lshr()V *)
          MethodInfo({"Public", "Static"}, 57, 8,
            <<CodeAttr(3, 3, 0,
                <<OP_LCONST_1, OP_ICONST_1, OP_LSHR, OP_RETURN>>)>>),
          (* lushr()V *)
          MethodInfo({"Public", "Static"}, 58, 8,
            <<CodeAttr(3, 3, 0,
                <<OP_LCONST_1, OP_ICONST_1, OP_LUSHR, OP_RETURN>>)>>),
          (* lshll()V *)
          MethodInfo({"Public", "Static"}, 59, 8,
            <<CodeAttr(3, 4, 0,
                <<OP_LCONST_1, OP_LCONST_1, OP_LSHL, OP_RETURN>>)>>),
          (* lshrl()V *)
          MethodInfo({"Public", "Static"}, 60, 8,
            <<CodeAttr(3, 4, 0,
                <<OP_LCONST_1, OP_LCONST_1, OP_LSHR, OP_RETURN>>)>>),
          (* tsw(I)V *)
          MethodInfo({"Public", "Static"}, 61, 62,
            <<CodeAttr(3, 1, 1,
                <<OP_ILOAD_0, OP_TABLESWITCH, 0, 0, 0, 0, 0, 31, 255, 255,
                  255, 255, 0, 0, 0, 2, 0, 0, 0, 32, 0, 0,
                  0, 33, 0, 0, 0, 34, 0, 0, 0, 35,
                  OP_RETURN, OP_RETURN, OP_RETURN,
                  OP_RETURN, OP_RETURN>>)>>),
          (* tsw0(I)V *)
          MethodInfo({"Public", "Static"}, 63, 62,
            <<CodeAttr(3, 1, 1,
                <<OP_ICONST_1, OP_POP, OP_ILOAD_0, OP_TABLESWITCH, 0, 0, 0,
                  17, 0, 0, 0, 0, 0, 0, 0, 0, 0, 0, 0, 18,
                  OP_RETURN, OP_RETURN>>)>>),
          (* lsw(I)V *)
          MethodInfo({"Public", "Static"}, 64, 62,
            <<CodeAttr(3, 1, 1,
                <<OP_ILOAD_0, OP_LOOKUPSWITCH, 0, 0, 0, 0, 0, 27, 0, 0, 0, 2,
                  255, 255, 255, 249, 0, 0, 0, 28, 0, 0, 0,
                  0, 0, 0, 0, 29, OP_RETURN, OP_RETURN,
                  OP_RETURN>>)>>),
          (* lsw3(I)V *)
          MethodInfo({"Public", "Static"}, 65, 62,
            <<CodeAttr(3, 1, 1,
                <<OP_ICONST_1, OP_POP, OP_ILOAD_0, OP_LOOKUPSWITCH, 0, 0, 0,
                  33, 0, 0, 0, 3, 255, 255, 255, 255, 0, 0,
                  0, 34, 0, 0, 0, 0, 0, 0, 0, 35, 0, 0, 0,
                  2, 0, 0, 0, 36, OP_RETURN, OP_RETURN,
                  OP_RETURN, OP_RETURN>>)>>),
          (* fcmplnan()V *)
          MethodInfo({"Public", "Static"}, 66, 8,
            <<CodeAttr(3, 3, 0,
                <<OP_FCONST_0, OP_FCONST_0, OP_FDIV, OP_FCONST_1, OP_FCMPL,
                  OP_RETURN>>)>>),
          (* fcmpgnan()V *)
          MethodInfo({"Public", "Static"}, 67, 8,
            <<CodeAttr(3, 3, 0,
                <<OP_FCONST_0, OP_FCONST_0, OP_FDIV, OP_FCONST_1, OP_FCMPG,
                  OP_RETURN>>)>>),
          (* fcmpgnan2()V *)
          MethodInfo({"Public", "Static"}, 68, 8,
            <<CodeAttr(3, 3, 0,
                <<OP_FCONST_1, OP_FCONST_0, OP_FCONST_0, OP_FDIV, OP_FCMPG,
                  OP_RETURN>>)>>),
          (* dcmplnan()V *)
          MethodInfo({"Public", "Static"}, 69, 8,
            <<CodeAttr(3, 6, 0,
                <<OP_DCONST_0, OP_DCONST_0, OP_DDIV, OP_DCONST_1, OP_DCMPL,
                  OP_RETURN>>)>>),
          (* dcmpgnan()V *)
          MethodInfo({"Public", "Static"}, 70, 8,
            <<CodeAttr(3, 6, 0,
                <<OP_DCONST_0, OP_DCONST_0, OP_DDIV, OP_DCONST_1, OP_DCMPG,
                  OP_RETURN>>)>>),
          (* fcmpg01()V *)
          MethodInfo({"Public", "Static"}, 71, 8,
            <<CodeAttr(3, 2, 0,
                <<OP_FCONST_0, OP_FCONST_1, OP_FCMPG, OP_RETURN>>)>>),
          (* dcmpl10()V *)
          MethodInfo({"Public", "Static"}, 72, 8,
            <<CodeAttr(3, 4, 0,
                <<OP_DCONST_1, OP_DCONST_0, OP_DCMPL, OP_RETURN>>)>>),
          (* iast(I)V *)
          MethodInfo({"Public", "Static"}, 73, 62,
            <<CodeAttr(3, 3, 1,
                <<OP_ICONST_2, OP_NEWARRAY, 10, OP_ILOAD_0, OP_ICONST_3,
                  OP_IASTORE, OP_RETURN>>)>>),
          (* iald(I)V *)
          MethodInfo({"Public", "Static"}, 74, 62,
            <<CodeAttr(3, 2, 1,
                <<OP_ICONST_2, OP_NEWARRAY, 10, OP_ILOAD_0, OP_IALOAD, OP_POP,
                  OP_RETURN>>)>>),
          (* iasl(I)V *)
          MethodInfo({"Public", "Static"}, 75, 62,
            <<CodeAttr(3, 3, 1,
                <<OP_ICONST_2, OP_NEWARRAY, 10, OP_DUP, OP_ILOAD_0,
                  OP_ICONST_3, OP_IASTORE, OP_ARRAYLENGTH,
                  OP_POP, OP_RETURN>>)>>)>>)

(* class D { static final int x; static int y;
     static { x = 1; read x; helper(); E.set(); new D(); }
     static void helper() { x = 2; } }                                      *)
ClassFileD ==
    MkClassFile(
        <<ClassInfo(2), Utf8Info("D"), Utf8Info("Code"),
          Utf8Info("x"), Utf8Info("I"), Utf8Info("y"),
          FieldRefInfo(1, 8), NameAndTypeInfo(4, 5),
          MethodRefInfo(1, 10), NameAndTypeInfo(11, 12),
          Utf8Info("helper"), Utf8Info("()V"), MethodRefInfo(14, 16),
          ClassInfo(15), Utf8Info("E"), NameAndTypeInfo(17, 12),
          Utf8Info("set"), Utf8Info("<clinit>"),
          Utf8Info("SourceFile")>>,
        1, 0, <<>>,
        <<FieldInfo({"Static", "Final"}, 4, 5, <<>>),
          FieldInfo({"Static"}, 6, 5, <<>>)>>,
        <<
          (* <clinit>()V *)
          MethodInfo({"Static"}, 18, 12,
            <<CodeAttr(3, 1, 0,
                <<OP_ICONST_1, OP_PUTSTATIC, 0, 7, OP_GETSTATIC, 0, 7, OP_POP,
                  OP_INVOKESTATIC, 0, 9, OP_INVOKESTATIC, 0,
                  13, OP_NEW, 0, 1, OP_POP, OP_RETURN>>)>>),
          (* helper()V *)
          MethodInfo({"Public", "Static"}, 11, 12,
            <<CodeAttr(3, 1, 0,
                <<OP_ICONST_2, OP_PUTSTATIC, 0, 7, OP_RETURN>>)>>)>>)

(* class E { static { read D.y; }  static void set() { D.x = 3; } } *)
ClassFileE ==
    MkClassFile(
        <<ClassInfo(2), Utf8Info("E"), Utf8Info("Code"),
          FieldRefInfo(5, 7), ClassInfo(6), Utf8Info("D"),
          NameAndTypeInfo(8, 9), Utf8Info("y"), Utf8Info("I"),
          Utf8Info("<clinit>"), Utf8Info("()V"), FieldRefInfo(5, 13),
          NameAndTypeInfo(14, 9), Utf8Info("x"), Utf8Info("set"),
          Utf8Info("SourceFile")>>,
        1, 0, <<>>,
        <<>>,
        <<
          (* <clinit>()V *)
          MethodInfo({"Static"}, 10, 11,
            <<CodeAttr(3, 1, 0,
                <<OP_GETSTATIC, 0, 4, OP_POP, OP_RETURN>>)>>),
          (* set()V *)
          MethodInfo({"Public", "Static"}, 15, 11,
            <<CodeAttr(3, 1, 0,
                <<OP_ICONST_3, OP_PUTSTATIC, 0, 12, OP_RETURN>>)>>)>>)

(* class K { static int z; static { throw ...; } } : the initializer ends
   with an error.                                                          *)
ClassFileK ==
    MkClassFile(
        <<ClassInfo(2), Utf8Info("K"), Utf8Info("Code"),
          Utf8Info("z"), Utf8Info("I"), Utf8Info("<clinit>"),
          Utf8Info("()V"), Utf8Info("SourceFile")>>,
        1, 0, <<>>,
        <<FieldInfo({"Static"}, 4, 5, <<>>)>>,
        <<
          (* <clinit>()V *)
          MethodInfo({"Static"}, 6, 7,
            <<CodeAttr(3, 1, 0,
                <<OP_ATHROW>>)>>)>>)

(* class T { static void main() { throw ...; } } : main ends with an error. *)
ClassFileT ==
    MkClassFile(
        <<ClassInfo(2), Utf8Info("T"), Utf8Info("main"), Utf8Info("()V"),
          Utf8Info("Code"), Utf8Info("SourceFile")>>,
        1, 0, <<>>, <<>>,
        <<MethodInfo({"Public", "Static"}, 3, 4,
            <<CodeAttr(5, 1, 0, <<OP_ATHROW>>)>>)>>)

(* interface S { default int d() { return 1; } }                           *)
ClassFileS ==
    MkClassFile(
        <<ClassInfo(2), Utf8Info("S"), Utf8Info("d"), Utf8Info("()I"),
          Utf8Info("Code"), Utf8Info("SourceFile")>>,
        1, 0, <<>>, <<>>,
        <<MethodInfo({"Public"}, 3, 4,
            <<CodeAttr(5, 1, 1, <<OP_ICONST_1, OP_IRETURN>>)>>)>>)

(* interface N extends S { default int e() { return 2; }  int a();        *)
(*                         static int t() { return 3; } }                  *)
(* and class C implements N {}                                             *)
ClassFileN ==
    MkClassFile(
        <<ClassInfo(2), Utf8Info("N"), ClassInfo(4), Utf8Info("S"),
          Utf8Info("e"), Utf8Info("()I"), Utf8Info("a"), Utf8Info("t"),
          Utf8Info("Code"), Utf8Info("SourceFile")>>,
        1, 0, <<3>>, <<>>,
        <<MethodInfo({"Public"}, 5, 6,
            <<CodeAttr(9, 1, 1, <<OP_ICONST_2, OP_IRETURN>>)>>),
          MethodInfo({"Public", "Abstract"}, 7, 6, <<>>),
          MethodInfo({"Public", "Static"}, 8, 6,
            <<CodeAttr(9, 1, 0, <<OP_ICONST_3, OP_IRETURN>>)>>)>>)

ClassFileC ==
    MkClassFile(
        <<ClassInfo(2), Utf8Info("C"), ClassInfo(4), Utf8Info("N"),
          Utf8Info("SourceFile")>>,
        1, 0, <<3>>, <<>>, <<>>)

(* class R { static void main() { nop(); }  static void nop() { } }, with  *)
(* the constants 7 and 9L in its pool: entry 8 is a Long and index 9 the   *)
(* slot that follows it.  main has nothing to push: its max_stack is 0.    *)
ClassFileR ==
    MkClassFile(
        <<ClassInfo(2), Utf8Info("R"), Utf8Info("main"), Utf8Info("()V"),
          Utf8Info("Code"), Utf8Info("SourceFile"), IntegerInfo(7),
          LongInfo(9), CpTombstone, MethodRefInfo(1, 11),
          NameAndTypeInfo(12, 4), Utf8Info("nop"), Utf8Info("R.java")>>,
        1, 0, <<>>, <<>>,
        <<MethodInfo({"Public", "Static"}, 3, 4,
            <<CodeAttr(5, 0, 0, <<OP_INVOKESTATIC, 0, 10, OP_RETURN>>)>>),
          MethodInfo({"Public", "Static"}, 12, 4,
            <<CodeAttr(5, 0, 0, <<OP_RETURN>>)>>)>>)

(* class X { static void main() { int[] a = new int[2]; a[2] = 3; } } *)
ClassFileX ==
    MkClassFile(
        <<ClassInfo(2), Utf8Info("X"), Utf8Info("main"), Utf8Info("()V"),
          Utf8Info("Code"), Utf8Info("SourceFile")>>,
        1, 0, <<>>, <<>>,
        <<MethodInfo({"Public", "Static"}, 3, 4,
            <<CodeAttr(5, 3, 0,
                <<OP_ICONST_2, OP_NEWARRAY, 10, OP_ICONST_2, OP_ICONST_3,
                  OP_IASTORE, OP_RETURN>>)>>)>>)

(* class H { static { long t = 1L; } } : the initializer uses two local    *)
(* cells.                                                                  *)
ClassFileH ==
    MkClassFile(
        <<ClassInfo(2), Utf8Info("H"), Utf8Info("<clinit>"), Utf8Info("()V"),
          Utf8Info("Code"), Utf8Info("SourceFile")>>,
        1, 0, <<>>, <<>>,
        <<MethodInfo({"Static"}, 3, 4,
            <<CodeAttr(5, 2, 2, <<OP_LCONST_1, OP_LSTORE_0, OP_RETURN>>)>>)>>)

(* The classes whose methods are run as programs of their own. *)
ProgramClassNames == {"Ops", "D", "E", "K"}

ClassNames ==
    {"A", "B", "Main", "F", "G", "P", "Q", "U", "V", "W", "T", "R", "X", "N", "C",
     "H", "S"}
    \cup ProgramClassNames

ClassPathFiles ==
    [n \in ClassNames |->
        CASE n = "A" -> ClassFileA
          [] n = "B" -> ClassFileB
          [] n = "Main" -> ClassFileMain
          [] n = "F" -> ClassFileF
          [] n = "G" -> ClassFileG
          [] n = "P" -> ClassFileP
          [] n = "Q" -> ClassFileQ
          [] n = "U" -> ClassFileU
          [] n = "V" -> ClassFileV
          [] n = "W" -> ClassFileW
          [] n = "T" -> ClassFileT
          [] n = "R" -> ClassFileR
          [] n = "X" -> ClassFileX
          [] n = "N" -> ClassFileN
          [] n = "C" -> ClassFileC
          [] n = "H" -> ClassFileH
          [] n = "S" -> ClassFileS
          [] n = "Ops" -> ClassFileOps
          [] n = "D" -> ClassFileD
          [] n = "E" -> ClassFileE
          [] n = "K" -> ClassFileK]

(* Names the entry point may ask for; "Nope" is not on the class path. *)
RequestedNames == (ClassNames \ ProgramClassNames) \cup {"Nope"}

(* ClassLoader::load_classfile: the class path's read(name) contract. *)
load_classfile(class_name) ==
    IF class_name \in DOMAIN ClassPathFiles
    THEN [ok |-> TRUE, classfile |-> ClassPathFiles[class_name]]
    ELSE [ok |-> FALSE, classfile |-> NoEntry]

(***************************************************************************)
(* Descriptors (reader::descriptor), on the descriptor strings that occur  *)
(* on the class path.                                                      *)
(***************************************************************************)
MethodDescriptor(parameters, return_type) ==
    [parameters |-> parameters, return_type |-> return_type]

parse_method_descriptor(s) ==
    CASE s = "()V" -> [ok |-> TRUE, descriptor |-> MethodDescriptor(<<>>, NoName)]
      [] s = "()I" -> [ok |-> TRUE, descriptor |-> MethodDescriptor(<<>>, "I")]
      [] s = "([Ljava/lang/String;)V" ->
            [ok |-> TRUE,
             descriptor |-> MethodDescriptor(<<"[Ljava/lang/String;">>, NoName)]
      [] s = "(I)V" ->
            [ok |-> TRUE, descriptor |-> MethodDescriptor(<<"I">>, NoName)]
      [] s = "(II)V" ->
            [ok |-> TRUE, descriptor |-> MethodDescriptor(<<"I", "I">>, NoName)]
      [] s = "(IJI)V" ->
            [ok |-> TRUE, descriptor |-> MethodDescriptor(<<"I", "J", "I">>, NoName)]
      [] s = "(J)V" ->
            [ok |-> TRUE, descriptor |-> MethodDescriptor(<<"J">>, NoName)]
      [] OTHER -> [ok |-> FALSE, descriptor |-> MethodDescriptor(<<>>, NoName)]

args_count(descriptor) == Len(descriptor.parameters)

CLINIT_DESCRIPTOR == MethodDescriptor(<<>>, NoName)
MAIN_METHOD_DESCRIPTOR == MethodDescriptor(<<>>, NoName)

(***************************************************************************)
(* ClassFile accessors (reader::base::classfile).                          *)
(***************************************************************************)
class_name_of(classfile) ==
    cp_get_class_name(classfile.constant_pool, classfile.this_class)

super_class_name(classfile) ==
    IF classfile.super_class = 0
    THEN [ok |-> TRUE, name |-> NoName]
    ELSE LET n == cp_get_class_name(classfile.constant_pool, classfile.super_class)
         IN [ok |-> n # NoName, name |-> n]

super_interfaces_names(classfile) ==
    LET names == [i \in 1..Len(classfile.interfaces) |->
                    cp_get_class_name(classfile.constant_pool, classfile.interfaces[i])]
    IN [ok |-> \A i \in 1..Len(names) : names[i] # NoName, names |-> names]

(***************************************************************************)
(* Slots (vm::slot).                                                       *)
(***************************************************************************)
Slot_Tombstone == [tag |-> "Tombstone", v |-> 0]
Slot_Int(v) == [tag |-> "Int", v |-> v]
Slot_Long(v) == [tag |-> "Long", v |-> v]
Slot_ArrayReference(h) == [tag |-> "ArrayReference", v |-> h]
Slot_Double(v) == [tag |-> "Double", v |-> v]
Slot_Float(v) == [tag |-> "Float", v |-> v]

(* f32 / f64 values: a finite value is its number (the programs' values    *)
(* are whole numbers); NaN and the infinities are marked.  IEEE compares   *)
(* NaN unequal and unordered to every value, itself included.              *)
Slot_NaN(ty) == [tag |-> ty, v |-> 0, special |-> "NaN"]
Slot_Infinity(ty, sign) == [tag |-> ty, v |-> sign, special |-> "Infinity"]
is_nan(slot) == "special" \in DOMAIN slot /\ slot.special = "NaN"
is_infinite(slot) == "special" \in DOMAIN slot /\ slot.special = "Infinity"
FloatOrder(slot) == IF is_infinite(slot) THEN slot.v * (2^30) ELSE slot.v
float_eq(a, b) == ~is_nan(a) /\ ~is_nan(b) /\ FloatOrder(a) = FloatOrder(b)
float_gt(a, b) == ~is_nan(a) /\ ~is_nan(b) /\ FloatOrder(a) > FloatOrder(b)
Slot_InvokationReturnAddress(pc) == [tag |-> "InvokationReturnAddress", v |-> pc]
Slot_ObjectReference(h) == [tag |-> "ObjectReference", v |-> h]
Slot_UndefinedReference == [tag |-> "UndefinedReference", v |-> 0]

(* Slot::size. *)
Slot_size(slot) ==
    IF slot.tag = "Tombstone" THEN 0
    ELSE IF slot.tag \in {"Long", "Double"} THEN 2
    ELSE 1

(***************************************************************************)
(* Runtime methods and fields (vm::class).                                 *)
(***************************************************************************)
parse_method_attribute(cp, attribute) ==
    LET name == cp_get_utf8_string(cp, attribute.attribute_name_index)
    IN CASE name = NoName -> [ok |-> FALSE, attr |-> NoEntry]
         [] name = "Code" ->
               [ok |-> TRUE,
                attr |-> [tag |-> "Code",
                          max_stack |-> attribute.info.max_stack,
                          max_locals |-> attribute.info.max_locals,
                          instructions |-> attribute.info.code]]
         [] name = "Synthetic" -> [ok |-> TRUE, attr |-> [tag |-> "Synthetic"]]
         [] name = "Deprecated" -> [ok |-> TRUE, attr |-> [tag |-> "Deprecated"]]
         [] OTHER -> [ok |-> TRUE, attr |-> NoEntry]

Method_try_from_classfile(cp, mi) ==
    LET name == cp_get_utf8_string(cp, mi.name_index)
        descriptor == cp_get_utf8_string(cp, mi.descriptor_index)
        parsed == parse_method_descriptor(descriptor)
        attrs == [i \in 1..Len(mi.attributes) |->
                    parse_method_attribute(cp, mi.attributes[i])]
        kept == SelectSeq([i \in 1..Len(attrs) |-> attrs[i].attr],
                          LAMBDA a : a # NoEntry)
    IN IF name = NoName \/ descriptor = NoName \/ ~parsed.ok
          \/ \E i \in 1..Len(attrs) : ~attrs[i].ok
       THEN [ok |-> FALSE, method |-> NoEntry]
       ELSE [ok |-> TRUE,
             method |-> [name |-> name, descriptor |-> parsed.descriptor,
                         flags |-> mi.access_flags, attributes |-> kept]]

get_code(method) ==
    LET codes == SelectSeq(method.attributes, LAMBDA a : a.tag = "Code")
    IN IF codes = <<>> THEN NoEntry ELSE codes[1]

is_static(m) == "Static" \in m.flags
is_native(m) == "Native" \in m.flags
is_abstract(m) == "Abstract" \in m.flags
is_private(m) == "Private" \in m.flags

(* reader::descriptor::parse_field_descriptor, on the field descriptors    *)
(* that occur on the class path.                                           *)
parse_field_descriptor(s) ==
    CASE s = "I" -> [ok |-> TRUE, descriptor |-> "I"]
      [] s = "J" -> [ok |-> TRUE, descriptor |-> "J"]
      [] s = "[I" -> [ok |-> TRUE, descriptor |-> "[I"]
      [] s = "[LA;" -> [ok |-> TRUE, descriptor |-> "[LA;"]
      [] OTHER -> [ok |-> FALSE, descriptor |-> NoName]

parse_field_attribute(cp, attribute) ==
    LET name == cp_get_utf8_string(cp, attribute.attribute_name_index)
        value == cp_get_info(cp, attribute.info.constant_value_index)
    IN CASE name = NoName -> [ok |-> FALSE, attr |-> NoEntry]
         [] name = "ConstantValue" ->
               IF value.tag = "IntegerInfo"
               THEN [ok |-> TRUE,
                     attr |-> [tag |-> "ConstantValue", value |-> Slot_Int(value.value)]]
               ELSE IF value.tag = "LongInfo"
               THEN [ok |-> TRUE,
                     attr |-> [tag |-> "ConstantValue", value |-> Slot_Long(value.value)]]
               ELSE [ok |-> FALSE, attr |-> NoEntry]
         [] name = "Synthetic" -> [ok |-> TRUE, attr |-> [tag |-> "Synthetic"]]
         [] name = "Deprecated" -> [ok |-> TRUE, attr |-> [tag |-> "Deprecated"]]
         [] OTHER -> [ok |-> TRUE, attr |-> NoEntry]

Field_try_from_classfile(cp, fi) ==
    LET name == cp_get_utf8_string(cp, fi.name_index)
        descriptor == cp_get_utf8_string(cp, fi.descriptor_index)
        parsed == parse_field_descriptor(descriptor)
        attrs == [i \in 1..Len(fi.attributes) |->
                    parse_field_attribute(cp, fi.attributes[i])]
        kept == SelectSeq([i \in 1..Len(attrs) |-> attrs[i].attr],
                          LAMBDA a : a # NoEntry)
        cvs == SelectSeq(kept, LAMBDA a : a.tag = "ConstantValue")
    IN IF name = NoName \/ descriptor = NoName \/ ~parsed.ok
          \/ \E i \in 1..Len(attrs) : ~attrs[i].ok
       THEN [ok |-> FALSE, field |-> NoEntry]
       ELSE [ok |-> TRUE,
             field |-> [name |-> name, descriptor |-> parsed.descriptor,
                        flags |-> fi.access_flags,
                        value |-> IF cvs = <<>> THEN Slot_Tombstone ELSE cvs[1].value,
                        attributes |-> kept]]

(* Field::get_value: always Some. *)
get_value(field) == field.value

is_final(f) == "Final" \in f.flags

(* Class::index_of_field (0-based, or NoId) and Class::get_field. *)
index_of_field(class, name) ==
    LET hits == {i \in 1..Len(class.fields) : class.fields[i].name = name}
    IN IF hits = {} THEN NoId
       ELSE (CHOOSE i \in hits : \A j \in hits : i <= j) - 1

get_field(class, name) ==
    IF index_of_field(class, name) = NoId THEN NoEntry
    ELSE class.fields[index_of_field(class, name) + 1]

(* Class::index_of_method: position (0-based) of the first match, or NoId. *)
index_of_method(class, name, descriptor) ==
    LET hits == {i \in 1..Len(class.methods) :
                    /\ class.methods[i].name = name
                    /\ class.methods[i].descriptor = descriptor}
    IN IF hits = {} THEN NoId
       ELSE (CHOOSE i \in hits : \A j \in hits : i <= j) - 1

(* Class::get_method_by_index (0-based index). *)
get_method_by_index(class, index) ==
    IF index >= 0 /\ index < Len(class.methods)
    THEN class.methods[index + 1] ELSE NoEntry

(***************************************************************************)
(* The class manager's tables: cm = [classes_by_id, name_map,              *)
(* next_class_id].  classes_by_id maps an id to a LoadedClass entry whose  *)
(* state is "Resolved", "Loading" or "Loaded".                             *)
(***************************************************************************)
get_class_by_id(cm, id) ==
    IF id \in DOMAIN cm.classes_by_id THEN cm.classes_by_id[id] ELSE NoEntry

id_of_class(cm, name) ==
    IF name \in DOMAIN cm.name_map THEN cm.name_map[name] ELSE NoId

get_class_by_name(cm, name) ==
    IF name \in DOMAIN cm.name_map
    THEN get_class_by_id(cm, cm.name_map[name]) ELSE NoEntry

IsLoaded(entry) == entry # NoEntry /\ entry.state = "Loaded"

MapPut(f, k, v) == [x \in DOMAIN f \cup {k} |-> IF x = k THEN v ELSE f[x]]

(***************************************************************************)
(* Runtime constant pool (vm::constant_pool).  mappings and entries are    *)
(* Rust Vecs: position p of a Vec is element p + 1 of the sequence.        *)
(***************************************************************************)
rt_append(cp, entry) ==
    [mappings |-> Append(cp.mappings, Len(cp.entries)),
     entries |-> Append(cp.entries, entry)]

rt_skip(cp) == [cp EXCEPT !.mappings = Append(@, 0)]

rt_get(cp, index) ==
    IF index = 0 \/ index >= Len(cp.mappings) THEN NoEntry
    ELSE LET map == cp.mappings[index + 1]
         IN IF map < Len(cp.entries) THEN cp.entries[map + 1] ELSE NoEntry

get_method_ref(cp, index) ==
    LET e == rt_get(cp, index)
    IN IF e.tag = "MethodReference" THEN e ELSE NoEntry

get_field_ref(cp, index) ==
    LET e == rt_get(cp, index)
    IN IF e.tag = "FieldReference" THEN e ELSE NoEntry

get_class_ref(cp, index) ==
    LET e == rt_get(cp, index)
    IN IF e.tag = "ClassReference" THEN e ELSE NoEntry

(* Class names of array type that a ClassInfo entry may carry, with the    *)
(* class their element type refers to (NoName for a primitive element).    *)
IsArrayTypeName(name) == name \in {"[I", "[LA;"}
get_referenced_class(name) == IF name = "[LA;" THEN "A" ELSE NoName

(* One class-file entry converted by ConstantPool::from_classfile. *)
rt_convert(cm, ccp, entry, cp) ==
    CASE entry.tag = "IntegerInfo" ->
            [ok |-> TRUE, cp |-> rt_append(cp, [tag |-> "IntegerConstant", value |-> entry.value])]
      [] entry.tag = "LongInfo" ->
            [ok |-> TRUE, cp |-> rt_append(cp, [tag |-> "LongConstant", value |-> entry.value])]
      [] entry.tag \in {"FieldRefInfo", "MethodRefInfo"} ->
            LET class_name == cp_get_class_name(ccp, entry.class_index)
                nt == cp_get_name_and_type(ccp, entry.name_and_type_index)
                implementor == id_of_class(cm, class_name)
                parsed == parse_method_descriptor(nt[2])
            IN IF class_name = NoName \/ nt[1] = NoName \/ implementor = NoId
               THEN [ok |-> FALSE, cp |-> cp]
               ELSE IF entry.tag = "MethodRefInfo"
               THEN IF ~parsed.ok THEN [ok |-> FALSE, cp |-> cp]
                    ELSE [ok |-> TRUE,
                          cp |-> rt_append(cp, [tag |-> "MethodReference",
                                                method_name |-> nt[1],
                                                method_descriptor |-> parsed.descriptor,
                                                implementor |-> implementor])]
               ELSE IF ~parse_field_descriptor(nt[2]).ok THEN [ok |-> FALSE, cp |-> cp]
               ELSE [ok |-> TRUE,
                     cp |-> rt_append(cp, [tag |-> "FieldReference",
                                           field_name |-> nt[1],
                                           field_descriptor |->
                                               parse_field_descriptor(nt[2]).descriptor,
                                           implementor |-> implementor])]
      [] entry.tag = "ClassInfo" ->
            LET class_name == cp_get_utf8_string(ccp, entry.name_index)
                class_id == id_of_class(cm, class_name)
            IN IF class_name = NoName THEN [ok |-> FALSE, cp |-> cp]
               ELSE IF IsArrayTypeName(class_name)
               THEN IF ~parse_field_descriptor(class_name).ok
                    THEN [ok |-> FALSE, cp |-> cp]
                    ELSE [ok |-> TRUE,
                          cp |-> rt_append(cp,
                                    [tag |-> "ArrayReference",
                                     field_type |->
                                         parse_field_descriptor(class_name).descriptor])]
               ELSE IF class_id = NoId THEN [ok |-> FALSE, cp |-> cp]
               ELSE [ok |-> TRUE,
                     cp |-> rt_append(cp, [tag |-> "ClassReference", class_id |-> class_id])]
      [] OTHER -> [ok |-> TRUE, cp |-> rt_skip(cp)]

(* The loop of from_classfile over the entries.  The converted pool is    *)
(* bound through a singleton set, which makes it a value computed once.    *)
RECURSIVE rt_from(_, _, _, _)
rt_from(cm, ccp, k, acc) ==
    IF k > Len(ccp) \/ ~acc.ok THEN acc
    ELSE CHOOSE r \in {rt_from(cm, ccp, k + 1, converted) :
                           converted \in {rt_convert(cm, ccp, ccp[k], acc.cp)}} : TRUE

(* from_classfile recording every class id one ahead of the id the class   *)
(* manager gave the name.                                                   *)
ConstantPool_from_classfile_ids_ahead(cm, classfile) ==
    rt_from([cm EXCEPT !.name_map = [n \in DOMAIN @ |-> @[n] + 1]],
            classfile.constant_pool, 1,
            [ok |-> TRUE, cp |-> [mappings |-> <<0>>, entries |-> <<>>]])

ConstantPool_from_classfile(cm, classfile) ==
    rt_from(cm, classfile.constant_pool, 1,
            [ok |-> TRUE, cp |-> [mappings |-> <<0>>, entries |-> <<>>]])

(***************************************************************************)
(* ClassManager::resolve_class.                                            *)
(***************************************************************************)
acquire_class_id(cm) ==
    [id |-> cm.next_class_id, cm |-> [cm EXCEPT !.next_class_id = @ + 1]]


(* The loop over the constant pool that collects the optional dependencies. *)
RECURSIVE collect_dependencies(_, _, _, _, _)
collect_dependencies(cm, class_name, ccp, k, dependencies) ==
    IF k > Len(ccp) THEN [ok |-> TRUE, dependencies |-> dependencies]
    ELSE IF ccp[k].tag # "ClassInfo"
    THEN collect_dependencies(cm, class_name, ccp, k + 1, dependencies)
    ELSE LET raw == cp_get_utf8_string(ccp, ccp[k].name_index)
             dep_class_name == IF IsArrayTypeName(raw) THEN get_referenced_class(raw)
                               ELSE raw
             skip == \/ dep_class_name = NoName
                     \/ class_name = dep_class_name
                     \/ dep_class_name \in DOMAIN cm.name_map
                     \/ \E i \in 1..Len(dependencies) : dependencies[i][1] = dep_class_name
         IN IF cp_get_info(ccp, ccp[k].name_index).tag # "Utf8Info"
            THEN [ok |-> FALSE, dependencies |-> dependencies]
            ELSE CHOOSE r \in {collect_dependencies(cm, class_name, ccp, k + 1, pushed) :
                                   pushed \in {IF skip THEN dependencies
                                                ELSE Append(dependencies,
                                                            <<dep_class_name, FALSE>>)}} :
                        TRUE

SelfDependency(dependencies, class_name) ==
    \E i \in 1..Len(dependencies) : dependencies[i] = <<class_name, TRUE>>

resolve_class(cm0, classfile) ==
    LET class_name == class_name_of(classfile)
        acq == acquire_class_id(cm0)
        class_id == acq.id
        cm == acq.cm
        super == super_class_name(classfile)
        ifaces == super_interfaces_names(classfile)
        required == (IF super.name # NoName THEN <<<<super.name, TRUE>>>> ELSE <<>>)
                    \o [i \in 1..Len(ifaces.names) |-> <<ifaces.names[i], TRUE>>]
        collected == collect_dependencies(cm, class_name, classfile.constant_pool,
                                          1, required)
        class == [state |-> "Resolved",
                  class_id |-> class_id,
                  class_name |-> class_name,
                  super_class |-> super.name,
                  interfaces |-> ifaces.names,
                  classfile |-> classfile,
                  class_dependencies |-> collected.dependencies]
    IN IF class_name = NoName
       THEN [ok |-> FALSE, err |-> "DecodingError", cm |-> cm0, class_id |-> NoId]
       ELSE IF ~super.ok \/ ~ifaces.ok
       THEN [ok |-> FALSE, err |-> "DecodingError", cm |-> cm, class_id |-> NoId]
       ELSE IF SelfDependency(required, class_name)
       THEN [ok |-> FALSE, err |-> "CircularDependency", cm |-> cm, class_id |-> NoId]
       ELSE IF ~collected.ok
       THEN [ok |-> FALSE, err |-> "ConstantPoolLoadingError", cm |-> cm,
             class_id |-> NoId]
       ELSE [ok |-> TRUE, err |-> "",
             cm |-> [cm EXCEPT !.classes_by_id = MapPut(@, class_id, class),
                               !.name_map = MapPut(@, class_name, class_id)],
             class_id |-> class_id]

(***************************************************************************)
(* ClassManager::get_or_resolve_class, one iteration of its work-list loop *)
(* at a time.  stack is the work list (a Vec used as a stack).             *)
(***************************************************************************)

(* Every dependency taken as unresolved, the Loaded ones too. *)
unresolved_of_all(cm, resolved) == resolved.class_dependencies

(* Lines 144-152: the dependencies that are not Loaded yet. *)
unresolved_of(cm, resolved) ==
    SelectSeq(resolved.class_dependencies,
              LAMBDA d : ~IsLoaded(get_class_by_name(cm, d[1])))

(* Lines 154-162: load and resolve every unresolved dependency, pushing the *)
(* required ones on the work list.                                          *)
RECURSIVE resolve_unresolved(_, _, _, _)

(* Lines 158-161: rc is what resolve_class returned for unresolved[k]. *)
push_dependency(rc, stack, unresolved, k) ==
    IF ~rc.ok
    THEN [ok |-> FALSE, err |-> rc.err, cm |-> rc.cm, stack |-> stack]
    ELSE resolve_unresolved(rc.cm,
            IF unresolved[k][2] THEN Append(stack, unresolved[k][1]) ELSE stack,
            unresolved, k + 1)

resolve_unresolved(cm, stack, unresolved, k) ==
    IF k > Len(unresolved) THEN [ok |-> TRUE, err |-> "", cm |-> cm, stack |-> stack]
    ELSE LET dependency == unresolved[k][1]
             lf == load_classfile(dependency)
         IN IF ~lf.ok
            THEN [ok |-> FALSE, err |-> "NotFound", cm |-> cm, stack |-> stack]
            ELSE CHOOSE r \in {push_dependency(rc, stack, unresolved, k) :
                                   rc \in {resolve_class(cm, lf.classfile)}} : TRUE

(* The Resolved arm that ends without storing the Loading entry: the name  *)
(* pushed back on the work list is found Resolved again.                   *)
make_loading_not_stored(deps, class_name, resolved, rcp, fs, ms) ==
    [ok |-> TRUE, err |-> "", cm |-> deps.cm, stack |-> deps.stack]

(* Lines 164-203: the Loading entry built from the Resolved one; deps is   *)
(* the outcome of the dependency loop, rcp the runtime constant pool, fs   *)
(* the converted fields and ms the converted methods.                      *)
make_loading(deps, class_name, resolved, rcp, fs, ms) ==
    LET loading == [state |-> "Loading",
                    class_id |-> resolved.class_id,
                    class_name |-> class_name,
                    super_class |-> resolved.super_class,
                    interfaces |-> resolved.interfaces,
                    constant_pool |-> rcp.cp,
                    fields |-> [i \in 1..Len(fs) |-> fs[i].field],
                    methods |-> [i \in 1..Len(ms) |-> ms[i].method]]
    IN IF ~rcp.ok
       THEN [ok |-> FALSE, err |-> "ConstantPoolLoadingError", cm |-> deps.cm,
             stack |-> deps.stack]
       ELSE IF \E i \in 1..Len(fs) : ~fs[i].ok
       THEN [ok |-> FALSE, err |-> "BadDescriptor", cm |-> deps.cm,
             stack |-> deps.stack]
       ELSE IF \E i \in 1..Len(ms) : ~ms[i].ok
       THEN [ok |-> FALSE, err |-> "BadDescriptor", cm |-> deps.cm,
             stack |-> deps.stack]
       ELSE [ok |-> TRUE, err |-> "",
             cm |-> [deps.cm EXCEPT !.classes_by_id =
                                        MapPut(@, resolved.class_id, loading)],
             stack |-> deps.stack]

(* Lines 163-203: what follows the dependency loop. *)
after_dependencies(deps, class_name, resolved) ==
    IF ~deps.ok THEN deps
    ELSE CHOOSE r \in
            {make_loading(deps, class_name, resolved, rcp, fs, ms) :
                rcp \in {ConstantPool_from_classfile(deps.cm, resolved.classfile)},
                fs \in {[i \in 1..Len(resolved.classfile.fields) |->
                           Field_try_from_classfile(resolved.classfile.constant_pool,
                                                    resolved.classfile.fields[i])]},
                ms \in {[i \in 1..Len(resolved.classfile.methods) |->
                           Method_try_from_classfile(resolved.classfile.constant_pool,
                                                     resolved.classfile.methods[i])]}} :
            TRUE

(* Lines 138-204: the entry of the popped name is Resolved. *)
step_resolved(cm, stack, class_name, resolved) ==
    CHOOSE r \in {after_dependencies(deps, class_name, resolved) :
                     deps \in {resolve_unresolved(cm, Append(stack, class_name),
                                                  unresolved_of(cm, resolved), 1)}} : TRUE

(* Lines 205-255: the entry of the popped name is Loading; the Loaded class *)
(* is stored with initialized = false.                                      *)
step_loading(cm, class_name, loading) ==
    LET super == get_class_by_name(cm, loading.super_class)
        ifaces == [i \in 1..Len(loading.interfaces) |->
                     get_class_by_name(cm, loading.interfaces[i])]
        class == [state |-> "Loaded",
                  id |-> loading.class_id,
                  name |-> loading.class_name,
                  superclass |-> IF loading.super_class = NoName THEN NoId
                                 ELSE super.id,
                  interfaces |-> [i \in 1..Len(ifaces) |-> ifaces[i].id],
                  constant_pool |-> loading.constant_pool,
                  fields |-> loading.fields,
                  methods |-> loading.methods,
                  initialized |-> FALSE]
    IN IF loading.super_class # NoName /\ ~IsLoaded(super)
       THEN [ok |-> FALSE, err |-> "SuperClassNotLoaded", cm |-> cm]
       ELSE IF \E i \in 1..Len(ifaces) : ~IsLoaded(ifaces[i])
       THEN [ok |-> FALSE, err |-> "SuperInterfaceNotLoaded", cm |-> cm]
       ELSE [ok |-> TRUE, err |-> "",
             cm |-> [cm EXCEPT !.name_map = MapPut(@, class_name, loading.class_id),
                               !.classes_by_id = MapPut(@, loading.class_id, class)]]

(* Lines 268-269: rc is what resolve_class returned for the popped name. *)
push_resolved(rc, stack, class_name) ==
    IF ~rc.ok
    THEN [ok |-> FALSE, err |-> rc.err, cm |-> rc.cm, stack |-> stack]
    ELSE [ok |-> TRUE, err |-> "", cm |-> rc.cm,
          stack |-> Append(stack, class_name)]

(* Lines 266-270: the popped name is unknown to the class manager. *)
step_unknown(cm, stack, class_name) ==
    LET lf == load_classfile(class_name)
    IN IF ~lf.ok THEN [ok |-> FALSE, err |-> "NotFound", cm |-> cm, stack |-> stack]
       ELSE push_resolved(resolve_class(cm, lf.classfile), stack, class_name)

(***************************************************************************)
(* Frames and threads (vm::thread).                                        *)
(***************************************************************************)
(* i32 addition with two's-complement wrap, computed without leaving the   *)
(* 32-bit range.                                                           *)
MaxI32 == 2147483647
MinI32 == 0 - 2147483647 - 1
AddI32(a, b) ==
    IF b > 0 /\ a > MaxI32 - b THEN (a + MinI32) + (b + MinI32)
    ELSE IF b < 0 /\ a < MinI32 - b THEN (a - MinI32) + (b - MinI32)
    ELSE a + b

Frame_new(class, method, varlen) ==
    [local_variables |-> [i \in 1..varlen |-> Slot_Tombstone],
     operand_stack |-> <<>>,
     class |-> class,
     method |-> method]

Thread_new == [pc |-> 0, stack |-> <<>>]

current_frame(thread) == Last(thread.stack)
set_current_frame(thread, frame) ==
    [thread EXCEPT !.stack = [@ EXCEPT ![Len(@)] = frame]]
push_frame(thread, frame) == [thread EXCEPT !.stack = Append(@, frame)]
pop_frame(thread) == [thread EXCEPT !.stack = Front(@)]

(***************************************************************************)
(* opcode::read_instruction: the instruction at byte offset pc, with its   *)
(* size in bytes.                                                          *)
(***************************************************************************)
Operand2Opcodes ==
    {OP_INVOKEVIRTUAL, OP_INVOKESPECIAL, OP_INVOKESTATIC, OP_NEW,
     OP_GETSTATIC, OP_PUTSTATIC}
Operand1Opcodes == {OP_LSTORE, OP_DSTORE, OP_NEWARRAY}
Operand0Opcodes ==
    {OP_ICONST_1, OP_ICONST_2, OP_ICONST_3, OP_POP, OP_DUP, OP_IADD,
     OP_IRETURN, OP_RETURN, OP_ATHROW,
     OP_LCONST_0, OP_LCONST_1, OP_DCONST_1, OP_ILOAD_0, OP_ILOAD_1,
     OP_LSTORE_0, OP_LSTORE_1, OP_LSTORE_2, OP_LSTORE_3,
     OP_DSTORE_0, OP_DSTORE_1, OP_DSTORE_2, OP_DSTORE_3,
     OP_POP2, OP_DUP_X2, OP_IDIV, OP_LDIV, OP_IREM, OP_LREM,
     OP_ISHL, OP_LSHL, OP_ISHR, OP_LSHR, OP_IUSHR, OP_LUSHR,
     OP_FCONST_0, OP_FCONST_1, OP_DCONST_0, OP_FDIV, OP_DDIV,
     OP_FCMPL, OP_FCMPG, OP_DCMPL, OP_DCMPG,
     OP_IALOAD, OP_IASTORE, OP_ARRAYLENGTH}

(* A big-endian i32 read at position p (0-based) of the code. *)
I32At(code, p) ==
    (IF code[p + 1] >= 128 THEN code[p + 1] - 256 ELSE code[p + 1]) * (2^24)
    + code[p + 2] * (2^16) + code[p + 3] * (2^8) + code[p + 4]

(* The switch operands start at the first position after the opcode that   *)
(* is a multiple of 4.                                                      *)
SwitchOperandsAt(pc) == (pc + 1) + ((4 - ((pc + 1) % 4)) % 4)

(* TableSwitch as binrw reads it: default, low, high, then high - low + 1   *)
(* offsets.  No table of the class path has high < low.                     *)
read_TableSwitch(code, pc) ==
    LET at == SwitchOperandsAt(pc)
        low == I32At(code, at + 4)
        high == I32At(code, at + 8)
        count == high - low + 1
    IN IF at + 12 > Len(code) THEN [ok |-> FALSE]
       ELSE IF count < 0 \/ at + 12 + 4 * count > Len(code) THEN [ok |-> FALSE]
       ELSE [ok |-> TRUE,
             size |-> 1 + (at - (pc + 1)) + (4 * 3) + 4 * count,
             table |-> [default |-> I32At(code, at), low |-> low, high |-> high,
                        jump_offsets |->
                            [i \in 1..count |-> I32At(code, at + 12 + 4 * (i - 1))]]]

(* LookupSwitch: default, npairs, then npairs (key, offset) pairs. *)
read_LookupSwitch(code, pc) ==
    LET at == SwitchOperandsAt(pc)
        npairs == I32At(code, at + 4)
    IN IF at + 8 > Len(code) THEN [ok |-> FALSE]
       ELSE IF npairs < 0 \/ at + 8 + 8 * npairs > Len(code) THEN [ok |-> FALSE]
       ELSE [ok |-> TRUE,
             size |-> 1 + (at - (pc + 1)) + (4 * 2) + 8 * npairs,
             table |-> [default |-> I32At(code, at), npairs |-> npairs,
                        match_offsets |->
                            [i \in 1..npairs |->
                                <<I32At(code, at + 8 + 8 * (i - 1)),
                                  I32At(code, at + 12 + 8 * (i - 1))>>]]]

read_instruction(code, pc) ==
    IF pc >= Len(code) THEN [ok |-> FALSE, size |-> 0, opcode |-> 0, operand |-> 0]
    ELSE LET b == code[pc + 1]
         IN IF b \in Operand0Opcodes
            THEN [ok |-> TRUE, size |-> 1, opcode |-> b, operand |-> 0]
            ELSE IF b \in Operand1Opcodes /\ pc + 1 < Len(code)
            THEN [ok |-> TRUE, size |-> 2, opcode |-> b, operand |-> code[pc + 2]]
            ELSE IF b \in Operand2Opcodes /\ pc + 2 < Len(code)
            THEN [ok |-> TRUE, size |-> 3, opcode |-> b,
                  operand |-> code[pc + 2] * 256 + code[pc + 3]]
            ELSE IF b = OP_TABLESWITCH /\ read_TableSwitch(code, pc).ok
            THEN [ok |-> TRUE, size |-> read_TableSwitch(code, pc).size, opcode |-> b,
                  operand |-> read_TableSwitch(code, pc).table]
            ELSE IF b = OP_LOOKUPSWITCH /\ read_LookupSwitch(code, pc).ok
            THEN [ok |-> TRUE, size |-> read_LookupSwitch(code, pc).size, opcode |-> b,
                  operand |-> read_LookupSwitch(code, pc).table]
            ELSE [ok |-> FALSE, size |-> 0, opcode |-> b, operand |-> 0]

(***************************************************************************)
(* Results of one instruction: InstructionSuccess / InstructionError, plus *)
(* "Load" when the instruction has to wait for get_or_resolve_class and     *)
(* "Panic" when the Rust code aborts (unwrap / expect / index).            *)
(***************************************************************************)
Res(status, n, thread, heap) ==
    [status |-> status, n |-> n, thread |-> thread, heap |-> heap, load |-> NoId,
     put |-> NoEntry]

ResErr(thread, heap) == Res("Err", 0, thread, heap)
ResPanic(thread, heap) == Res("Panic", 0, thread, heap)
ResLoad(thread, heap, class_id) ==
    [status |-> "Load", n |-> 0, thread |-> thread, heap |-> heap, load |-> class_id,
     put |-> NoEntry]

(* An instruction that ended with Next(n) after assigning value to the     *)
(* static field field_name of the class class_id (field.value = value).    *)
ResPut(n, thread, heap, class_id, field_name, value) ==
    [status |-> "Next", n |-> n, thread |-> thread, heap |-> heap, load |-> NoId,
     put |-> [class_id |-> class_id, field_name |-> field_name, value |-> value]]

(* The class manager after the assignment an instruction made, if any.     *)
apply_put(cm, put) ==
    IF put = NoEntry THEN cm
    ELSE [cm EXCEPT !.classes_by_id[put.class_id].fields[
                        index_of_field(cm.classes_by_id[put.class_id], put.field_name) + 1
                    ].value = put.value]

(* ClassManager::request_class_load as seen by an instruction: loadres is  *)
(* the result of the get_or_resolve_class call made on its behalf, once    *)
(* that call has returned.                                                 *)
(* The argument of a call, a class name or a class id, kept with its kind. *)
CallArg(op, arg) ==
    IF op = "get_or_resolve_class" THEN [name |-> arg] ELSE [id |-> arg]

raw_arg(a) == IF "name" \in DOMAIN a THEN a.name ELSE a.id

LoadResult(op, arg, ok, id, err, entry) ==
    [tag |-> "Result", op |-> op, arg |-> CallArg(op, arg), ok |-> ok, id |-> id, err |-> err,
     state |-> IF entry = NoEntry THEN "None" ELSE entry.state,
     initialized |-> IsLoaded(entry) /\ entry.initialized]

(* request_class_load without its arm for a class that is already Loaded:  *)
(* every known class goes through get_or_resolve_class.                    *)
request_class_load_always(cm, class_id, loadres) ==
    LET e == get_class_by_id(cm, class_id)
    IN IF loadres # NoEntry THEN loadres
       ELSE IF e = NoEntry
       THEN LoadResult("request_class_load", class_id, FALSE, NoId, "NotFound", NoEntry)
       ELSE [tag |-> "Load"]

request_class_load(cm, class_id, loadres) ==
    LET e == get_class_by_id(cm, class_id)
    IN IF loadres # NoEntry THEN loadres
       ELSE IF IsLoaded(e)
       THEN LoadResult("request_class_load", class_id, TRUE, e.id, "", e)
       ELSE IF e = NoEntry
       THEN LoadResult("request_class_load", class_id, FALSE, NoId, "NotFound", NoEntry)
       ELSE [tag |-> "Load"]

(***************************************************************************)
(* opcode::constant, opcode::stack, opcode::math.                          *)
(***************************************************************************)
xconst_i(thread, heap, value) ==
    LET frame == current_frame(thread)
    IN Res("Next", 1,
           set_current_frame(thread,
               [frame EXCEPT !.operand_stack = Append(@, Slot_Int(value))]), heap)

pop(thread, heap) ==
    LET frame == current_frame(thread)
        st == frame.operand_stack
    IN IF st = <<>> THEN ResErr(thread, heap)
       ELSE LET t == set_current_frame(thread, [frame EXCEPT !.operand_stack = Front(st)])
            IN IF Last(st).tag \in {"Long", "Double"} THEN ResErr(t, heap)
               ELSE Res("Next", 1, t, heap)

dup(thread, heap) ==
    LET frame == current_frame(thread)
        st == frame.operand_stack
    IN IF st = <<>> \/ Last(st).tag \in {"Long", "Double"} THEN ResErr(thread, heap)
       ELSE Res("Next", 1,
                set_current_frame(thread,
                    [frame EXCEPT !.operand_stack = Append(st, Last(st))]), heap)

iadd(thread, heap) ==
    LET frame == current_frame(thread)
        st == frame.operand_stack
    IN IF Len(st) = 0 THEN ResErr(thread, heap)
       ELSE IF Len(st) = 1
       THEN ResErr(set_current_frame(thread, [frame EXCEPT !.operand_stack = <<>>]), heap)
       ELSE LET slot1 == st[Len(st)]
                slot2 == st[Len(st) - 1]
                rest == SubSeq(st, 1, Len(st) - 2)
            IN IF slot1.tag = "Int" /\ slot2.tag = "Int"
               THEN Res("Next", 1,
                        set_current_frame(thread,
                            [frame EXCEPT !.operand_stack =
                                Append(rest, Slot_Int(AddI32(slot1.v, slot2.v)))]), heap)
               ELSE ResErr(set_current_frame(thread,
                               [frame EXCEPT !.operand_stack = rest]), heap)

(* The current frame with its operand stack replaced. *)
with_operand_stack(thread, st) ==
    set_current_frame(thread, [current_frame(thread) EXCEPT !.operand_stack = st])

(* xconst_i!(lconst_0 / lconst_1, Long, ..) and xconst_i!(dconst_1, Double, ..). *)
lconst(thread, heap, value) ==
    Res("Next", 1,
        with_operand_stack(thread,
            Append(current_frame(thread).operand_stack, Slot_Long(value))), heap)

fconst(thread, heap, value) ==
    Res("Next", 1,
        with_operand_stack(thread,
            Append(current_frame(thread).operand_stack, Slot_Float(value))), heap)

dconst(thread, heap, value) ==
    Res("Next", 1,
        with_operand_stack(thread,
            Append(current_frame(thread).operand_stack, Slot_Double(value))), heap)

(* opcode::load, xload_n!: local variable index (counted from 0) pushed if *)
(* it holds a slot of type ty.                                             *)
xload_n(thread, heap, ty, index) ==
    LET frame == current_frame(thread)
    IN IF index >= Len(frame.local_variables) THEN ResErr(thread, heap)
       ELSE IF frame.local_variables[index + 1].tag # ty THEN ResErr(thread, heap)
       ELSE Res("Next", 1,
                with_operand_stack(thread,
                    Append(frame.operand_stack, frame.local_variables[index + 1])),
                heap)

(* opcode::store, xstore! in the form the four indexed stores are built    *)
(* with (istore, lstore, fstore, dstore): one cell is written.             *)
xstore(thread, heap, ty, index) ==
    LET frame == current_frame(thread)
        st == frame.operand_stack
        popped == with_operand_stack(thread, Front(st))
    IN IF st = <<>> THEN ResErr(thread, heap)
       ELSE IF Last(st).tag # ty THEN ResErr(popped, heap)
       ELSE IF Len(frame.local_variables) <= index THEN ResErr(popped, heap)
       ELSE Res("Next", 2,
                set_current_frame(thread,
                    [frame EXCEPT !.operand_stack = Front(st),
                                  !.local_variables[index + 1] = Last(st)]),
                heap)

(* xstore_n! in its wide form (lstore_0..3, dstore_0..3): the cell and the *)
(* Tombstone after it are written.                                         *)
xstore_n_wide(thread, heap, ty, index) ==
    LET frame == current_frame(thread)
        st == frame.operand_stack
        popped == with_operand_stack(thread, Front(st))
    IN IF st = <<>> THEN ResErr(thread, heap)
       ELSE IF Last(st).tag # ty THEN ResErr(popped, heap)
       ELSE IF Len(frame.local_variables) <= index + 1 THEN ResErr(popped, heap)
       ELSE Res("Next", 1,
                set_current_frame(thread,
                    [frame EXCEPT !.operand_stack = Front(st),
                                  !.local_variables[index + 1] = Last(st),
                                  !.local_variables[index + 2] = Slot_Tombstone]),
                heap)

IsWide(slot) == slot.tag \in {"Long", "Double"}

pop2(thread, heap) ==
    LET st == current_frame(thread).operand_stack
        s1 == Front(st)
    IN IF st = <<>> THEN ResErr(thread, heap)
       ELSE IF IsWide(Last(st)) THEN Res("Next", 1, with_operand_stack(thread, s1), heap)
       ELSE IF s1 = <<>> THEN ResErr(with_operand_stack(thread, s1), heap)
       ELSE IF IsWide(Last(s1))
       THEN Res("Next", 1, with_operand_stack(thread, Front(s1)), heap)
       ELSE ResErr(with_operand_stack(thread, Front(s1)), heap)

dup_x2(thread, heap) ==
    LET st == current_frame(thread).operand_stack
        slot == Last(st)
        s1 == Front(st)
        slot2 == Last(s1)
        s2 == Front(s1)
        s3 == Append(s2, slot)
        slot3 == Last(s3)
    IN IF st = <<>> \/ IsWide(slot) THEN ResErr(thread, heap)
       ELSE IF s1 = <<>> THEN ResErr(with_operand_stack(thread, s1), heap)
       ELSE IF IsWide(slot2)
       THEN Res("Next", 1, with_operand_stack(thread, s2 \o <<slot, slot2, slot>>), heap)
       ELSE IF IsWide(slot3) THEN ResErr(with_operand_stack(thread, s3), heap)
       ELSE Res("Next", 1,
                with_operand_stack(thread, Front(s3) \o <<slot, slot3, slot2, slot>>),
                heap)

(* Rust's / and % on integers: the quotient truncates toward zero and the  *)
(* remainder takes the sign of the dividend.  The quotient is computed on  *)
(* magnitudes, and MinI32 (which has no magnitude in 32 bits) is handled   *)
(* apart, so that no intermediate value leaves the 32-bit range.           *)
Abs(a) == IF a < 0 THEN 0 - a ELSE a
Sgn(a) == IF a < 0 THEN 0 - 1 ELSE 1

TruncDivSafe(a, b) == Sgn(a) * Sgn(b) * (Abs(a) \div Abs(b))

TruncDiv(a, b) ==
    IF b = MinI32 THEN (IF a = MinI32 THEN 1 ELSE 0)
    ELSE IF a = MinI32 THEN TruncDivSafe(a + Abs(b), b) - Sgn(b)
    ELSE TruncDivSafe(a, b)

TruncRem(a, b) == a - TruncDiv(a, b) * b

(* The one quotient outside the type: MIN / -1, on which / and % panic.    *)
(* Long slots hold small values here, far from i64::MIN.                   *)
DivOverflows(ty, a, b) == ty = "Int" /\ a = MinI32 /\ b = 0 - 1

(* opcode::math, xdiv! and xrem!: slot1 is the top of the operand stack    *)
(* and slot2 the value below it.                                           *)
(* value1 / value2 on f32 / f64, for the quotients the programs form (of   *)
(* 0.0 and 1.0): no trap, 0.0 / 0.0 is NaN and x / 0.0 an infinity.        *)
FloatQuotient(ty, a, b) ==
    IF is_nan(a) \/ is_nan(b) THEN Slot_NaN(ty)
    ELSE IF is_infinite(a) THEN (IF is_infinite(b) THEN Slot_NaN(ty) ELSE a)
    ELSE IF is_infinite(b) THEN [tag |-> ty, v |-> 0]
    ELSE IF b.v = 0
    THEN (IF a.v = 0 THEN Slot_NaN(ty) ELSE Slot_Infinity(ty, Sgn(a.v)))
    ELSE [tag |-> ty, v |-> TruncDiv(a.v, b.v)]

xdiv(thread, heap, ty) ==
    LET st == current_frame(thread).operand_stack
        slot1 == st[Len(st)]
        slot2 == st[Len(st) - 1]
        rest == SubSeq(st, 1, Len(st) - 2)
    IN IF Len(st) = 0 THEN ResErr(thread, heap)
       ELSE IF Len(st) = 1 THEN ResErr(with_operand_stack(thread, <<>>), heap)
       ELSE IF slot1.tag # ty \/ slot2.tag # ty
       THEN ResErr(with_operand_stack(thread, rest), heap)
       ELSE IF ty \in {"Float", "Double"}
       THEN Res("Next", 1,
                with_operand_stack(thread, Append(rest, FloatQuotient(ty, slot1, slot2))),
                heap)
       ELSE IF slot2.v = 0 \/ DivOverflows(ty, slot1.v, slot2.v)
       THEN ResPanic(with_operand_stack(thread, rest), heap)
       ELSE Res("Next", 1,
                with_operand_stack(thread,
                    Append(rest, [tag |-> ty, v |-> TruncDiv(slot1.v, slot2.v)])),
                heap)

xrem(thread, heap, ty) ==
    LET st == current_frame(thread).operand_stack
        slot1 == st[Len(st)]
        slot2 == st[Len(st) - 1]
        rest == SubSeq(st, 1, Len(st) - 2)
    IN IF Len(st) = 0 THEN ResErr(thread, heap)
       ELSE IF Len(st) = 1 THEN ResErr(with_operand_stack(thread, <<>>), heap)
       ELSE IF slot1.tag # ty \/ slot2.tag # ty
       THEN ResErr(with_operand_stack(thread, rest), heap)
       ELSE IF slot2.v = 0 \/ DivOverflows(ty, slot1.v, slot2.v)
       THEN ResPanic(with_operand_stack(thread, rest), heap)
       ELSE Res("Next", 1,
                with_operand_stack(thread,
                    Append(rest, [tag |-> ty, v |-> TruncRem(slot1.v, slot2.v)])),
                heap)

idiv(thread, heap) == xdiv(thread, heap, "Int")
ldiv(thread, heap) == xdiv(thread, heap, "Long")
irem(thread, heap) == xrem(thread, heap, "Int")
lrem(thread, heap) == xrem(thread, heap, "Long")

(***************************************************************************)
(* ClassManager::is_superclass_of and ClassManager::resolve_method.        *)

(***************************************************************************)
(* Shifts (xshl!, xshr!).  Rust's << and >> on i32 never overflow for an   *)
(* amount below 32: << drops the bits shifted out, >> on a signed integer  *)
(* copies the sign bit.  The longs of the programs are 0 and 1 and their   *)
(* amounts are below 31, so a long shift never leaves the 64 bits.         *)
(***************************************************************************)
Dbl32(x) ==
    IF x >= 2^30 THEN (x - 2^30) * 2 + MinI32
    ELSE IF x < 0 - 2^30 THEN ((x + 2^30) * 2 + MaxI32) + 1
    ELSE x * 2

RECURSIVE Shl32(_, _)
Shl32(x, n) == IF n = 0 THEN x ELSE Shl32(Dbl32(x), n - 1)

Shr32(x, n) ==
    IF n >= 31 THEN (IF x < 0 THEN 0 - 1 ELSE 0) ELSE x \div (2^n)

xshl(thread, heap, ty) ==
    LET st == current_frame(thread).operand_stack
        slot1 == st[Len(st)]
        slot2 == st[Len(st) - 1]
        amount == slot2.v % 32
    IN IF Len(st) < 2 THEN ResErr(thread, heap)
       ELSE IF slot1.tag # ty \/ slot2.tag # ty THEN ResErr(thread, heap)
       ELSE Res("Next", 1,
                with_operand_stack(thread,
                    Append(SubSeq(st, 1, Len(st) - 2),
                           [tag |-> ty,
                            v |-> IF ty = "Int" THEN Shl32(slot1.v, amount)
                                  ELSE slot1.v * (2^amount)])),
                heap)

xshr(thread, heap, ty) ==
    LET st == current_frame(thread).operand_stack
        slot1 == st[Len(st)]
        slot2 == st[Len(st) - 1]
        amount == slot2.v % 32
    IN IF Len(st) < 2 THEN ResErr(thread, heap)
       ELSE IF slot1.tag # ty \/ slot2.tag # ty THEN ResErr(thread, heap)
       ELSE Res("Next", 1,
                with_operand_stack(thread,
                    Append(SubSeq(st, 1, Len(st) - 2),
                           [tag |-> ty,
                            v |-> IF ty = "Int" THEN Shr32(slot1.v, amount)
                                  ELSE slot1.v \div (2^amount)])),
                heap)

(***************************************************************************)
RECURSIVE is_superclass_of(_, _, _)
is_superclass_of(cm, class_id, other) ==
    IF class_id = other THEN TRUE
    ELSE LET class == get_class_by_id(cm, class_id)
         IN IF ~IsLoaded(class) THEN FALSE
            ELSE IF class.superclass = NoId THEN FALSE
            ELSE is_superclass_of(cm, class.superclass, other)

MethodResult(ok, class_id, index) == [ok |-> ok, class_id |-> class_id, index |-> index]

(* Lines 402-413: walk the superclass chain from cur, collecting the direct *)
(* interfaces of every class passed.                                        *)
RECURSIVE search_superclasses(_, _, _, _, _)
search_superclasses(cm, cur, name, descriptor, superinterfaces) ==
    IF cur = NoId
    THEN [ok |-> TRUE, class_id |-> NoId, index |-> NoId,
          superinterfaces |-> superinterfaces]
    ELSE LET class == get_class_by_id(cm, cur)
         IN IF ~IsLoaded(class)
            THEN [ok |-> FALSE, class_id |-> NoId, index |-> NoId,
                  superinterfaces |-> superinterfaces]
            ELSE IF index_of_method(class, name, descriptor) # NoId
            THEN [ok |-> TRUE, class_id |-> cur,
                  index |-> index_of_method(class, name, descriptor),
                  superinterfaces |-> superinterfaces]
            ELSE search_superclasses(cm, class.superclass, name, descriptor,
                                     superinterfaces \o class.interfaces)

(* Lines 416-426: the first collected interface that declares a method     *)
(* which is neither private, static nor abstract.                          *)
RECURSIVE search_superinterfaces(_, _, _, _, _)
search_superinterfaces(cm, superinterfaces, k, name, descriptor) ==
    IF k > Len(superinterfaces) THEN MethodResult(TRUE, NoId, NoId)
    ELSE LET cid == superinterfaces[k]
             class == get_class_by_id(cm, cid)
             index == index_of_method(class, name, descriptor)
             method == get_method_by_index(class, index)
         IN IF ~IsLoaded(class) THEN MethodResult(FALSE, NoId, NoId)
            ELSE IF index # NoId /\ ~is_private(method) /\ ~is_static(method)
                    /\ ~is_abstract(method)
            THEN MethodResult(TRUE, cid, index)
            ELSE search_superinterfaces(cm, superinterfaces, k + 1, name, descriptor)

resolve_method(cm, this_class, impl_class, name, descriptor, special) ==
    LET class == get_class_by_id(cm, impl_class)
        chain == search_superclasses(cm, impl_class, name, descriptor, <<>>)
    IN IF special /\ name # "<init>" /\ is_superclass_of(cm, impl_class, this_class)
          /\ ~IsLoaded(class)
       THEN MethodResult(FALSE, NoId, NoId)
       ELSE IF special /\ name # "<init>" /\ is_superclass_of(cm, impl_class, this_class)
               /\ index_of_method(class, name, descriptor) # NoId
       THEN MethodResult(TRUE, impl_class, index_of_method(class, name, descriptor))
       ELSE IF ~chain.ok THEN MethodResult(FALSE, NoId, NoId)
       ELSE IF chain.class_id # NoId THEN MethodResult(TRUE, chain.class_id, chain.index)
       ELSE search_superinterfaces(cm, chain.superinterfaces, 1, name, descriptor)

(***************************************************************************)
(* opcode::reference: invoke and the invoke* instructions, new.            *)
(***************************************************************************)

(* A return address that forgets the width of the invoke instruction. *)
old_pc_at_invoke(pc, next_instruction) == pc

(* Line 771: the pc the invoker resumes at. *)
old_pc(pc, next_instruction) == pc + next_instruction

(* A layout that gives every argument one cell, whatever its width. *)
RECURSIVE place_args_one_cell(_, _, _, _)
place_args_one_cell(locals, args, k, arg_pos) ==
    IF k > Len(args) THEN [ok |-> TRUE, locals |-> locals]
    ELSE IF arg_pos + 1 > Len(locals) THEN [ok |-> FALSE, locals |-> locals]
    ELSE place_args_one_cell([locals EXCEPT ![arg_pos + 1] = args[k]], args, k + 1,
                             arg_pos + 1)

(* Lines 782-802: the arguments laid out in the callee's locals. *)
RECURSIVE place_args(_, _, _, _)
place_args(locals, args, k, arg_pos) ==
    IF k > Len(args) THEN [ok |-> TRUE, locals |-> locals]
    ELSE LET arg == args[k]
         IN IF arg.tag \in {"Int", "Float", "UndefinedReference", "ArrayReference",
                            "ObjectReference", "ReturnAddress"}
            THEN IF arg_pos + 1 > Len(locals) THEN [ok |-> FALSE, locals |-> locals]
                 ELSE place_args([locals EXCEPT ![arg_pos + 1] = arg], args, k + 1,
                                 arg_pos + 1)
            ELSE IF arg.tag \in {"Long", "Double"}
            THEN IF arg_pos + 2 > Len(locals) THEN [ok |-> FALSE, locals |-> locals]
                 ELSE place_args([locals EXCEPT ![arg_pos + 1] = arg,
                                                ![arg_pos + 2] = Slot_Tombstone],
                                 args, k + 1, arg_pos + 2)
            ELSE [ok |-> FALSE, locals |-> locals]

invoke(cm, heap, thread, class_id, method_id, args, next_instruction) ==
    LET impl_class == get_class_by_id(cm, class_id)
        method == get_method_by_index(impl_class, method_id)
        code == get_code(method)
        frame == Frame_new(class_id, method_id, code.max_locals)
        cur_frame == current_frame(thread)
        pushed == set_current_frame(thread,
                      [cur_frame EXCEPT !.operand_stack =
                          Append(@, Slot_InvokationReturnAddress(
                                        old_pc(thread.pc, next_instruction)))])
        placed == place_args(frame.local_variables, args, 1, 0)
    IN IF ~IsLoaded(impl_class) THEN ResErr(thread, heap)
       ELSE IF method = NoEntry THEN ResErr(thread, heap)
       ELSE IF is_native(method) THEN Res("Next", next_instruction, thread, heap)
       ELSE IF code = NoEntry THEN ResPanic(thread, heap)
       ELSE IF ~placed.ok THEN ResPanic(thread, heap)
       ELSE Res("FrameChange", 0,
                push_frame(pushed, [frame EXCEPT !.local_variables = placed.locals]),
                heap)

invokestatic(cm, heap, thread, index, loadres) ==
    LET frame == current_frame(thread)
        class == get_class_by_id(cm, frame.class)
        ref == get_method_ref(class.constant_pool, index)
        rcl == request_class_load(cm, ref.implementor, loadres)
        impl_class == get_class_by_id(cm, ref.implementor)
        method_id == index_of_method(impl_class, ref.method_name, ref.method_descriptor)
        method == get_method_by_index(impl_class, method_id)
        st == frame.operand_stack
        n == args_count(ref.method_descriptor)
        args == SubSeq(st, Len(st) - n + 1, Len(st))
        popped == set_current_frame(thread,
                      [frame EXCEPT !.operand_stack = SubSeq(st, 1, Len(st) - n)])
    IN IF ~IsLoaded(class) THEN ResErr(thread, heap)
       ELSE IF ref = NoEntry THEN ResErr(thread, heap)
       ELSE IF rcl.tag = "Load" THEN ResLoad(thread, heap, ref.implementor)
       ELSE IF ~rcl.ok THEN ResErr(thread, heap)
       ELSE IF ~IsLoaded(impl_class) THEN ResErr(thread, heap)
       ELSE IF method_id = NoId THEN ResErr(thread, heap)
       ELSE IF Len(st) < n THEN ResPanic(thread, heap)
       ELSE IF ~is_static(method) THEN ResErr(popped, heap)
       ELSE invoke(cm, heap, popped, ref.implementor, method_id, args, 3)

(* invokespecial (special = TRUE) and invokevirtual (special = FALSE). *)
invoke_on_object(cm, heap, thread, index, loadres, special) ==
    LET frame == current_frame(thread)
        this_class == frame.class
        class == get_class_by_id(cm, frame.class)
        ref == get_method_ref(class.constant_pool, index)
        rcl == request_class_load(cm, ref.implementor, loadres)
        target == resolve_method(cm, this_class, ref.implementor, ref.method_name,
                                 ref.method_descriptor, special)
        st == frame.operand_stack
        n == args_count(ref.method_descriptor)
        objref == st[Len(st) - n]
        args == <<objref>> \o SubSeq(st, Len(st) - n + 1, Len(st))
        popped == set_current_frame(thread,
                      [frame EXCEPT !.operand_stack = SubSeq(st, 1, Len(st) - n - 1)])
    IN IF ~IsLoaded(class) THEN ResErr(thread, heap)
       ELSE IF ref = NoEntry THEN ResErr(thread, heap)
       ELSE IF rcl.tag = "Load" THEN ResLoad(thread, heap, ref.implementor)
       ELSE IF ~rcl.ok THEN ResErr(thread, heap)
       ELSE IF ~target.ok THEN ResErr(thread, heap)
       ELSE IF target.class_id = NoId THEN ResErr(thread, heap)
       ELSE IF Len(st) < n + 1 THEN ResErr(thread, heap)
       ELSE IF objref.tag # "ObjectReference" THEN ResErr(popped, heap)
       ELSE invoke(cm, heap, popped, target.class_id, target.index, args, 3)

invokespecial(cm, heap, thread, index, loadres) ==
    invoke_on_object(cm, heap, thread, index, loadres, TRUE)

invokevirtual(cm, heap, thread, index, loadres) ==
    invoke_on_object(cm, heap, thread, index, loadres, FALSE)

(* Object::new_with_classmanager followed by the push of the reference. *)
new(cm, heap, thread, index, loadres) ==
    LET frame == current_frame(thread)
        class == get_class_by_id(cm, frame.class)
        ref == get_class_ref(class.constant_pool, index)
        rcl == request_class_load(cm, ref.class_id, loadres)
        target == get_class_by_id(cm, ref.class_id)
        obj == [class_id |-> ref.class_id,
                fields |-> [i \in 1..Len(target.fields) |-> Slot_Tombstone]]
        heap2 == Append(heap, obj)
    IN IF ~IsLoaded(class) THEN ResErr(thread, heap)
       ELSE IF ref = NoEntry THEN ResErr(thread, heap)
       ELSE IF rcl.tag = "Load" THEN ResLoad(thread, heap, ref.class_id)
       ELSE IF ~rcl.ok THEN ResErr(thread, heap)
       ELSE IF ~IsLoaded(target) THEN ResErr(thread, heap)
       ELSE Res("Next", 3,
                set_current_frame(thread,
                    [frame EXCEPT !.operand_stack =
                        Append(@, Slot_ObjectReference(Len(heap2)))]),
                heap2)

(* getstatic: intern_get_field, then the value of the static field is     *)
(* pushed.                                                                 *)
getstatic(cm, heap, thread, index, loadres) ==
    LET frame == current_frame(thread)
        class == get_class_by_id(cm, frame.class)
        ref == get_field_ref(class.constant_pool, index)
        rcl == request_class_load(cm, ref.implementor, loadres)
        impl_class == get_class_by_id(cm, ref.implementor)
        field == get_field(impl_class, ref.field_name)
    IN IF ~IsLoaded(class) THEN ResErr(thread, heap)
       ELSE IF ref = NoEntry THEN ResErr(thread, heap)
       ELSE IF rcl.tag = "Load" THEN ResLoad(thread, heap, ref.implementor)
       ELSE IF ~rcl.ok THEN ResErr(thread, heap)
       ELSE IF ~IsLoaded(impl_class) THEN ResErr(thread, heap)
       ELSE IF field = NoEntry THEN ResErr(thread, heap)
       ELSE IF ~is_static(field) THEN ResErr(thread, heap)
       ELSE Res("Next", 3,
                with_operand_stack(thread, Append(frame.operand_stack, get_value(field))),
                heap)

putstatic(cm, heap, thread, index, loadres) ==
    LET frame == current_frame(thread)
        class == get_class_by_id(cm, frame.class)
        ref == get_field_ref(class.constant_pool, index)
        rcl == request_class_load(cm, ref.implementor, loadres)
        impl_class == get_class_by_id(cm, ref.implementor)
        class_initialized == impl_class.initialized
        field == get_field(impl_class, ref.field_name)
        st == frame.operand_stack
    IN IF ~IsLoaded(class) THEN ResErr(thread, heap)
       ELSE IF ref = NoEntry THEN ResErr(thread, heap)
       ELSE IF rcl.tag = "Load" THEN ResLoad(thread, heap, ref.implementor)
       ELSE IF ~rcl.ok THEN ResErr(thread, heap)
       ELSE IF ~IsLoaded(impl_class) THEN ResErr(thread, heap)
       ELSE IF field = NoEntry THEN ResErr(thread, heap)
       ELSE IF ~is_static(field) THEN ResErr(thread, heap)
       ELSE IF is_final(field) /\ class_initialized THEN ResErr(thread, heap)
       ELSE IF st = <<>> THEN ResErr(thread, heap)
       ELSE ResPut(3, with_operand_stack(thread, Front(st)), heap,
                   ref.implementor, ref.field_name, Last(st))



(***************************************************************************)
(* opcode::comparison: fcmpl, fcmpg, dcmpl, dcmpg.  value2 is the top of   *)
(* the operand stack and value1 the value below it; nan_result is what the *)
(* first test pushes.  That test compares each value with the constant     *)
(* NAN using ==.                                                           *)
(***************************************************************************)
xcmp(thread, heap, ty, nan_result) ==
    LET st == current_frame(thread).operand_stack
        value2 == st[Len(st)]
        value1 == st[Len(st) - 1]
        rest == SubSeq(st, 1, Len(st) - 2)
        result == IF float_eq(value1, Slot_NaN(ty)) \/ float_eq(value2, Slot_NaN(ty))
                  THEN nan_result
                  ELSE IF float_gt(value1, value2) THEN 1
                  ELSE IF float_eq(value1, value2) THEN 0
                  ELSE 0 - 1
    IN IF Len(st) < 2 THEN ResPanic(thread, heap)
       ELSE IF value1.tag # ty \/ value2.tag # ty
       THEN ResErr(with_operand_stack(thread, rest), heap)
       ELSE Res("Next", 1, with_operand_stack(thread, Append(rest, Slot_Int(result))),
                heap)

(***************************************************************************)
(* opcode::control: the switches.  binary_search_by_key is the search of   *)
(* a sorted slice: the interval [lo, hi) is halved until the key is found  *)
(* or the interval is empty.                                               *)
(***************************************************************************)
RECURSIVE binary_search_by_key(_, _, _, _)
binary_search_by_key(pairs, key, lo, hi) ==
    IF lo >= hi THEN NoId
    ELSE LET mid == lo + ((hi - lo) \div 2)
         IN IF pairs[mid + 1][1] = key THEN mid
            ELSE IF pairs[mid + 1][1] < key
            THEN binary_search_by_key(pairs, key, mid + 1, hi)
            ELSE binary_search_by_key(pairs, key, lo, mid)

(* tableswitch with the entry of index high left to default. *)
tableswitch_high_excluded(thread, heap, table) ==
    LET st == current_frame(thread).operand_stack
        index == st[Len(st)]
        popped == with_operand_stack(thread, Front(st))
    IN IF st = <<>> THEN ResPanic(thread, heap)
       ELSE IF index.tag # "Int" THEN ResErr(popped, heap)
       ELSE IF index.v < table.low \/ index.v >= table.high
       THEN Res("JumpRelative", table.default, popped, heap)
       ELSE Res("JumpRelative", table.jump_offsets[(index.v - table.low) + 1],
                popped, heap)

tableswitch(thread, heap, table) ==
    LET st == current_frame(thread).operand_stack
        index == st[Len(st)]
        popped == with_operand_stack(thread, Front(st))
    IN IF st = <<>> THEN ResPanic(thread, heap)
       ELSE IF index.tag # "Int" THEN ResErr(popped, heap)
       ELSE IF index.v < table.low \/ index.v > table.high
       THEN Res("JumpRelative", table.default, popped, heap)
       ELSE Res("JumpRelative", table.jump_offsets[(index.v - table.low) + 1],
                popped, heap)

(* lookupswitch whose search leaves the last pair of the table out. *)
lookupswitch_last_excluded(thread, heap, table) ==
    LET st == current_frame(thread).operand_stack
        key == st[Len(st)]
        popped == with_operand_stack(thread, Front(st))
        found == binary_search_by_key(table.match_offsets, key.v, 0,
                                      Len(table.match_offsets) - 1)
    IN IF st = <<>> THEN ResPanic(thread, heap)
       ELSE IF key.tag # "Int" THEN ResErr(popped, heap)
       ELSE IF found # NoId
       THEN Res("JumpRelative", table.match_offsets[found + 1][2], popped, heap)
       ELSE Res("JumpRelative", table.default, popped, heap)

lookupswitch(thread, heap, table) ==
    LET st == current_frame(thread).operand_stack
        key == st[Len(st)]
        popped == with_operand_stack(thread, Front(st))
        found == binary_search_by_key(table.match_offsets, key.v, 0,
                                      Len(table.match_offsets))
    IN IF st = <<>> THEN ResPanic(thread, heap)
       ELSE IF key.tag # "Int" THEN ResErr(popped, heap)
       ELSE IF found # NoId
       THEN Res("JumpRelative", table.match_offsets[found + 1][2], popped, heap)
       ELSE Res("JumpRelative", table.default, popped, heap)

(***************************************************************************)
(* opcode::control: return and the value returns.                          *)
(***************************************************************************)
(* A return that reads the return address of the invoker and leaves it on  *)
(* the invoker's operand stack.                                            *)
vreturn_keeps_address(thread, heap) ==
    LET t == pop_frame(thread)
        frame == current_frame(t)
        st == frame.operand_stack
    IN IF t.stack = <<>> THEN Res("Completed", 0, t, heap)
       ELSE IF st = <<>> THEN ResErr(t, heap)
       ELSE IF Last(st).tag # "InvokationReturnAddress" THEN ResErr(t, heap)
       ELSE Res("FrameChange", Last(st).v, t, heap)

vreturn(thread, heap) ==
    LET t == pop_frame(thread)
        frame == current_frame(t)
        st == frame.operand_stack
    IN IF t.stack = <<>> THEN Res("Completed", 0, t, heap)
       ELSE IF st = <<>> THEN ResErr(t, heap)
       ELSE LET t2 == set_current_frame(t, [frame EXCEPT !.operand_stack = Front(st)])
            IN IF Last(st).tag # "InvokationReturnAddress" THEN ResErr(t2, heap)
               ELSE Res("FrameChange", Last(st).v, t2, heap)

xreturn(thread, heap, ty) ==
    LET prev_frame == current_frame(thread)
        t == pop_frame(thread)
        pst == prev_frame.operand_stack
        frame == current_frame(t)
        st == frame.operand_stack
    IN IF pst = <<>> \/ Last(pst).tag # ty THEN ResErr(t, heap)
       ELSE IF t.stack = <<>> THEN ResPanic(t, heap)
       ELSE IF st = <<>> THEN ResErr(t, heap)
       ELSE IF Last(st).tag # "InvokationReturnAddress"
       THEN ResErr(set_current_frame(t, [frame EXCEPT !.operand_stack = Front(st)]),
                   heap)
       ELSE Res("FrameChange", Last(st).v,
                set_current_frame(t, [frame EXCEPT !.operand_stack =
                                          Append(Front(st), Last(pst))]),
                heap)

ireturn(thread, heap) == xreturn(thread, heap, "Int")

(***************************************************************************)
(* Arrays (alloc::array).  An array is a heap cell [array, data]: array is *)
(* the variant of the Array enum and data the Vec of item_array!, element  *)
(* i of the Vec being data[i + 1].  A Slot::ArrayReference holds the       *)
(* cell's address.                                                         *)
(***************************************************************************)
IsArray(heap, slot) ==
    slot.tag = "ArrayReference" /\ slot.v \in 1..Len(heap)

(* `index as usize` of a negative i32 is above every Vec length. *)
InBounds(array, index) == index >= 0 /\ index < Len(array.data)

(* The variant newarray builds for an atype; 0 stands for its error arm. *)
ArrayOfAtype(atype) ==
    CASE atype = 4 -> "Boolean" [] atype = 5 -> "Char" [] atype = 6 -> "Float"
      [] atype = 7 -> "Double" [] atype = 8 -> "Byte" [] atype = 9 -> "Short"
      [] atype = 10 -> "Int" [] atype = 11 -> "Long" [] OTHER -> "None"

newarray(thread, heap, atype) ==
    LET st == current_frame(thread).operand_stack
        popped == with_operand_stack(thread, Front(st))
        heap2 == Append(heap, [array |-> ArrayOfAtype(atype),
                               data |-> [i \in 1..Last(st).v |-> 0]])
    IN IF st = <<>> THEN ResPanic(thread, heap)
       ELSE IF Last(st).tag # "Int" \/ Last(st).v < 0 THEN ResErr(popped, heap)
       ELSE IF ArrayOfAtype(atype) = "None" THEN ResErr(popped, heap)
       ELSE Res("Next", 2,
                with_operand_stack(thread,
                    Append(Front(st), Slot_ArrayReference(Len(heap2)))), heap2)

arraylength(thread, heap) ==
    LET st == current_frame(thread).operand_stack
        popped == with_operand_stack(thread, Front(st))
    IN IF st = <<>> THEN ResPanic(thread, heap)
       ELSE IF ~IsArray(heap, Last(st)) THEN ResErr(popped, heap)
       ELSE Res("Next", 1,
                with_operand_stack(thread,
                    Append(Front(st), Slot_Int(Len(heap[Last(st).v].data)))), heap)

(* xaload!: the index, then the array reference are popped; item_array!'s  *)
(* get answers None outside the Vec.                                       *)
xaload(thread, heap, ty, arrty) ==
    LET st == current_frame(thread).operand_stack
        n == Len(st)
    IN IF n = 0 THEN ResErr(thread, heap)
       ELSE IF st[n].tag # "Int" THEN ResErr(with_operand_stack(thread, Front(st)), heap)
       ELSE IF n = 1 THEN ResErr(with_operand_stack(thread, <<>>), heap)
       ELSE IF ~IsArray(heap, st[n - 1]) \/ heap[st[n - 1].v].array # arrty
                \/ ~InBounds(heap[st[n - 1].v], st[n].v)
       THEN ResErr(with_operand_stack(thread, SubSeq(st, 1, n - 2)), heap)
       ELSE Res("Next", 1,
                with_operand_stack(thread,
                    Append(SubSeq(st, 1, n - 2),
                           [tag |-> ty, v |-> heap[st[n - 1].v].data[st[n].v + 1]])),
                heap)

(* xastore!: the value, the index and the array reference are popped;      *)
(* item_array!'s set indexes the Vec (`[index] = value`), which panics     *)
(* outside it.                                                             *)
xastore(thread, heap, ty, arrty) ==
    LET st == current_frame(thread).operand_stack
        n == Len(st)
        rest == with_operand_stack(thread, SubSeq(st, 1, n - 3))
    IN IF n = 0 THEN ResErr(thread, heap)
       ELSE IF n = 1 THEN ResErr(with_operand_stack(thread, <<>>), heap)
       ELSE IF st[n - 1].tag # "Int"
       THEN ResErr(with_operand_stack(thread, SubSeq(st, 1, n - 2)), heap)
       ELSE IF n = 2 THEN ResErr(with_operand_stack(thread, <<>>), heap)
       ELSE IF ~IsArray(heap, st[n - 2]) THEN ResErr(rest, heap)
       ELSE IF heap[st[n - 2].v].array # arrty \/ st[n].tag # ty THEN ResErr(rest, heap)
       ELSE IF ~InBounds(heap[st[n - 2].v], st[n - 1].v) THEN ResPanic(rest, heap)
       ELSE Res("Next", 1, rest,
                [heap EXCEPT ![st[n - 2].v].data[st[n - 1].v + 1] = st[n].v])

(***************************************************************************)
(* Opcode::execute: the dispatch on the decoded instruction.               *)
(***************************************************************************)
Opcode_execute(inst, cm, heap, thread, loadres) ==
    CASE inst.opcode = OP_ICONST_1 -> xconst_i(thread, heap, 1)
      [] inst.opcode = OP_ICONST_2 -> xconst_i(thread, heap, 2)
      [] inst.opcode = OP_ICONST_3 -> xconst_i(thread, heap, 3)
      [] inst.opcode = OP_POP -> pop(thread, heap)
      [] inst.opcode = OP_DUP -> dup(thread, heap)
      [] inst.opcode = OP_IADD -> iadd(thread, heap)
      [] inst.opcode = OP_IRETURN -> ireturn(thread, heap)
      [] inst.opcode = OP_RETURN -> vreturn(thread, heap)
      [] inst.opcode = OP_INVOKEVIRTUAL ->
            invokevirtual(cm, heap, thread, inst.operand, loadres)
      [] inst.opcode = OP_INVOKESPECIAL ->
            invokespecial(cm, heap, thread, inst.operand, loadres)
      [] inst.opcode = OP_INVOKESTATIC ->
            invokestatic(cm, heap, thread, inst.operand, loadres)
      [] inst.opcode = OP_NEW -> new(cm, heap, thread, inst.operand, loadres)
      [] inst.opcode = OP_GETSTATIC ->
            getstatic(cm, heap, thread, inst.operand, loadres)
      [] inst.opcode = OP_PUTSTATIC ->
            putstatic(cm, heap, thread, inst.operand, loadres)
      [] inst.opcode = OP_LCONST_0 -> lconst(thread, heap, 0)
      [] inst.opcode = OP_LCONST_1 -> lconst(thread, heap, 1)
      [] inst.opcode = OP_DCONST_1 -> dconst(thread, heap, 1)
      [] inst.opcode = OP_ILOAD_0 -> xload_n(thread, heap, "Int", 0)
      [] inst.opcode = OP_ILOAD_1 -> xload_n(thread, heap, "Int", 1)
      [] inst.opcode = OP_LSTORE -> xstore(thread, heap, "Long", inst.operand)
      [] inst.opcode = OP_DSTORE -> xstore(thread, heap, "Double", inst.operand)
      [] inst.opcode = OP_LSTORE_0 -> xstore_n_wide(thread, heap, "Long", 0)
      [] inst.opcode = OP_LSTORE_1 -> xstore_n_wide(thread, heap, "Long", 1)
      [] inst.opcode = OP_LSTORE_2 -> xstore_n_wide(thread, heap, "Long", 2)
      [] inst.opcode = OP_LSTORE_3 -> xstore_n_wide(thread, heap, "Long", 3)
      [] inst.opcode = OP_DSTORE_0 -> xstore_n_wide(thread, heap, "Double", 0)
      [] inst.opcode = OP_DSTORE_1 -> xstore_n_wide(thread, heap, "Double", 1)
      [] inst.opcode = OP_DSTORE_2 -> xstore_n_wide(thread, heap, "Double", 2)
      [] inst.opcode = OP_DSTORE_3 -> xstore_n_wide(thread, heap, "Double", 3)
      [] inst.opcode = OP_POP2 -> pop2(thread, heap)
      [] inst.opcode = OP_DUP_X2 -> dup_x2(thread, heap)
      [] inst.opcode = OP_IDIV -> idiv(thread, heap)
      [] inst.opcode = OP_LDIV -> ldiv(thread, heap)
      [] inst.opcode = OP_IREM -> irem(thread, heap)
      [] inst.opcode = OP_LREM -> lrem(thread, heap)
      [] inst.opcode = OP_ISHL -> xshl(thread, heap, "Int")
      [] inst.opcode = OP_LSHL -> xshl(thread, heap, "Long")
      [] inst.opcode = OP_ISHR -> xshr(thread, heap, "Int")
      [] inst.opcode = OP_LSHR -> xshr(thread, heap, "Long")
      [] inst.opcode = OP_FCONST_0 -> fconst(thread, heap, 0)
      [] inst.opcode = OP_FCONST_1 -> fconst(thread, heap, 1)
      [] inst.opcode = OP_DCONST_0 -> dconst(thread, heap, 0)
      [] inst.opcode = OP_FDIV -> xdiv(thread, heap, "Float")
      [] inst.opcode = OP_DDIV -> xdiv(thread, heap, "Double")
      [] inst.opcode = OP_FCMPL -> xcmp(thread, heap, "Float", 0 - 1)
      [] inst.opcode = OP_FCMPG -> xcmp(thread, heap, "Float", 1)
      [] inst.opcode = OP_DCMPL -> xcmp(thread, heap, "Double", 0 - 1)
      [] inst.opcode = OP_DCMPG -> xcmp(thread, heap, "Double", 1)
      [] inst.opcode = OP_TABLESWITCH -> tableswitch(thread, heap, inst.operand)
      [] inst.opcode = OP_LOOKUPSWITCH -> lookupswitch(thread, heap, inst.operand)
      [] inst.opcode = OP_NEWARRAY -> newarray(thread, heap, inst.operand)
      [] inst.opcode = OP_ARRAYLENGTH -> arraylength(thread, heap)
      [] inst.opcode = OP_IALOAD -> xaload(thread, heap, "Int", "Int")
      [] inst.opcode = OP_IASTORE -> xastore(thread, heap, "Int", "Int")
      [] OTHER -> ResErr(thread, heap)

(***************************************************************************)
(* Thread::execute, one instruction at a time: the frame's class and       *)
(* method are looked up, the instruction at pc is read and executed, and   *)
(* pc is updated from the InstructionSuccess.                              *)
(***************************************************************************)
Thread_step(cm, heap, thread, loadres) ==
    LET frame == current_frame(thread)
        class == get_class_by_id(cm, frame.class)
        method == get_method_by_index(class, frame.method)
        code == get_code(method)
        inst == read_instruction(code.instructions, thread.pc)
        r == Opcode_execute(inst, cm, heap, thread, loadres)
    IN IF class = NoEntry THEN ResPanic(thread, heap)
       ELSE IF ~IsLoaded(class) THEN ResErr(thread, heap)
       ELSE IF method = NoEntry THEN ResErr(thread, heap)
       ELSE IF code = NoEntry THEN ResPanic(thread, heap)
       ELSE IF ~inst.ok THEN ResErr(thread, heap)
       ELSE CASE r.status = "Next" ->
                    [r EXCEPT !.thread.pc = thread.pc + r.n]
              [] r.status = "JumpRelative" ->
                    [r EXCEPT !.thread.pc = thread.pc + r.n]
              [] r.status \in {"JumpAbsolute", "FrameChange"} ->
                    [r EXCEPT !.thread.pc = r.n]
              [] OTHER -> r

(***************************************************************************)
(* ThreadManager::create_thread and Vm::create_thread: a thread with one   *)
(* frame on the given method, the arguments written into its locals.       *)
(***************************************************************************)
RECURSIVE thread_args(_, _, _, _)
thread_args(locals, args, k, pos) ==
    IF k > Len(args) THEN [ok |-> TRUE, locals |-> locals]
    ELSE LET at == IF Slot_size(args[k]) > 1 THEN pos + 1 ELSE pos
         IN IF at >= Len(locals) THEN [ok |-> FALSE, locals |-> locals]
            ELSE thread_args([locals EXCEPT ![at + 1] = args[k]], args, k + 1, at + 1)

ThreadManager_create_thread(class, method, max_locals, args) ==
    LET frame == Frame_new(class, method, max_locals)
        placed == thread_args(frame.local_variables, args, 1, 0)
    IN [ok |-> placed.ok,
        thread |-> push_frame(Thread_new,
                              [frame EXCEPT !.local_variables = placed.locals])]

Vm_create_thread(cm, class_id, method, args) ==
    LET class == get_class_by_id(cm, class_id)
        m == get_method_by_index(class, method)
        code == get_code(m)
    IN IF ~IsLoaded(class) \/ m = NoEntry \/ code = NoEntry
       THEN [ok |-> FALSE, thread |-> Thread_new]
       ELSE ThreadManager_create_thread(class_id, method, code.max_locals, args)

(***************************************************************************)
(* The state.  classes_by_id, name_map and next_class_id are the fields of *)
(* the ClassManager; heap holds the allocated objects.  calls is the Rust  *)
(* call stack: one activation per running get_or_resolve_class (with its   *)
(* work list and its init_thread) or Vm::execute_thread; only the last one *)
(* runs.  last is what the latest call of the entry point returned.        *)
(* init_failed records the ids whose <clinit> ended with an error, and     *)
(* call_sites records, per frame pushed by an invoke, where and with which *)
(* operand stack the invoker is expected to resume.                        *)
(***************************************************************************)
VARIABLES classes_by_id, name_map, next_class_id, heap, calls, last, ops,
          init_failed, panicked, reader, exit_code

vars == <<classes_by_id, name_map, next_class_id, heap, calls, last, ops,
          init_failed, panicked, reader, exit_code>>

(* The Vm's own state: the class manager, the heap and the calls in        *)
(* progress.  reader is a class-file decoder's buffer and result, and      *)
(* exit_code the code cmd::main left the process with; neither belongs to  *)
(* the Vm.                                                                 *)
NoExit == [tag |-> "Running"]
(* std::process::exit(code). *)
exit(code) == [tag |-> "Exit", code |-> code]

VmInit ==
    /\ classes_by_id = <<>>
    /\ name_map = <<>>
    /\ next_class_id = 0
    /\ heap = <<>>
    /\ calls = <<>>
    /\ last = NoEntry
    /\ ops = 0
    /\ init_failed = {}
    /\ panicked = FALSE

VmOnly == UNCHANGED <<reader, exit_code>>

CM == [classes_by_id |-> classes_by_id, name_map |-> name_map,
       next_class_id |-> next_class_id]

SetCM(cm) ==
    /\ classes_by_id' = cm.classes_by_id
    /\ name_map' = cm.name_map
    /\ next_class_id' = cm.next_class_id

(* LoadedClass::name and LoadedClass::id. *)
entry_name(entry) == IF entry.state = "Loaded" THEN entry.name ELSE entry.class_name
entry_id(entry) == IF entry.state = "Loaded" THEN entry.id ELSE entry.class_id

Activation(kind, via, arg, class_name, thread) ==
    [kind |-> kind, via |-> via, arg |-> CallArg(via, arg), class_name |-> class_name,
     stack |-> IF kind = "load" THEN <<class_name>> ELSE <<>>,
     thread |-> thread, initializing |-> NoId, loadres |-> NoEntry,
     call_sites |-> <<>>]

Init ==
    /\ VmInit
    /\ reader = NoEntry
    /\ exit_code = NoExit

(* A call returns res to its caller: the instruction waiting in the        *)
(* activation below, or the entry point.                                   *)
(* A return that hands the caller its thread back reset, as if the class   *)
(* initializer had run on the thread of the caller.                        *)
Deliver_on_caller_thread(below, res) ==
    IF below = <<>>
    THEN calls' = <<>> /\ last' = res
    ELSE /\ calls' = [below EXCEPT ![Len(below)].loadres = res,
                                   ![Len(below)].thread = Thread_new]
         /\ last' = last

Deliver(below, res) ==
    IF below = <<>>
    THEN calls' = <<>> /\ last' = res
    ELSE calls' = [below EXCEPT ![Len(below)].loadres = res] /\ last' = last

(* Line 273 and request_class_load's match on it: the work list is empty.  *)
ReturnOk(cm, act) ==
    LET entry == get_class_by_name(cm, act.class_name)
    IN IF act.via = "request_class_load" /\ ~IsLoaded(entry)
       THEN LoadResult(act.via, raw_arg(act.arg), FALSE, NoId, "Unknown", NoEntry)
       ELSE LoadResult(act.via, raw_arg(act.arg), TRUE, entry_id(entry), "", entry)

ReturnErr(act, err) ==
    LoadResult(act.via, raw_arg(act.arg), FALSE, NoId, err, NoEntry)

(* The loop of get_or_resolve_class goes on, or ends when the work list is *)
(* empty.                                                                  *)
ContinueLoop(cm, below, act) ==
    IF act.stack = <<>> THEN Deliver(below, ReturnOk(cm, act))
    ELSE calls' = Append(below, act) /\ last' = last

(* ClassManager::execute_class_init up to the start of <clinit>. *)
clinit_of(cm, class_id) ==
    index_of_method(get_class_by_id(cm, class_id), "<clinit>", CLINIT_DESCRIPTOR)

mark_initialized(cm, class_id) ==
    [cm EXCEPT !.classes_by_id[class_id].initialized = TRUE]

(***************************************************************************)
(* Entry point: Vm users call get_or_resolve_class, request_class_load and *)
(* create_thread + execute_thread (as cmd::main does after loading the     *)
(* main class).                                                            *)
(***************************************************************************)
Idle == calls = <<>> /\ ~panicked /\ ops < MaxOps

CallGetOrResolveClass(class_name) ==
    /\ Idle
    /\ calls' = <<Activation("load", "get_or_resolve_class", class_name, class_name,
                             Thread_new)>>
    /\ ops' = ops + 1
    /\ UNCHANGED <<classes_by_id, name_map, next_class_id, heap, last, init_failed,
                   panicked>>

CallRequestClassLoad(class_id) ==
    LET r == request_class_load(CM, class_id, NoEntry)
    IN /\ Idle
       /\ IF r.tag = "Load"
          THEN /\ calls' = <<Activation("load", "request_class_load", class_id,
                                        entry_name(get_class_by_id(CM, class_id)),
                                        Thread_new)>>
               /\ last' = last
          ELSE calls' = calls /\ last' = r
       /\ ops' = ops + 1
       /\ UNCHANGED <<classes_by_id, name_map, next_class_id, heap, init_failed,
                      panicked>>

(* cmd::main lines 48-74: the main class was returned Loaded, its main     *)
(* method is looked up and run on a new thread.                            *)
CallExecuteThread ==
    LET main_class == get_class_by_id(CM, last.id)
        main_method == index_of_method(main_class, "main", MAIN_METHOD_DESCRIPTOR)
        code == get_code(get_method_by_index(main_class, main_method))
        thread == push_frame(Thread_new,
                             Frame_new(last.id, main_method, code.max_locals))
    IN /\ Idle
       /\ last # NoEntry /\ last.op = "get_or_resolve_class" /\ last.ok
       /\ IsLoaded(main_class)
       /\ main_method # NoId
       /\ IF code = NoEntry
          THEN panicked' = TRUE /\ calls' = calls
          ELSE /\ panicked' = panicked
               /\ calls' = <<Activation("run", "execute_thread", last.id,
                                        main_class.name, thread)>>
       /\ ops' = ops + 1
       /\ UNCHANGED <<classes_by_id, name_map, next_class_id, heap, last, init_failed>>

(***************************************************************************)
(* get_or_resolve_class: one iteration of the work-list loop.              *)
(***************************************************************************)
LoaderStep ==
    /\ calls # <<>> /\ ~panicked
    /\ LET act == Last(calls)
           below == Front(calls)
       IN /\ act.kind = "load" /\ act.initializing = NoId /\ act.stack # <<>>
          /\ LET class_name == Last(act.stack)
                 stack == Front(act.stack)
                 entry == get_class_by_name(CM, class_name)
             IN CASE entry = NoEntry ->
                       \E r \in {step_unknown(CM, stack, class_name)} :
                          /\ r.cm.next_class_id <= MaxClassIds
                          /\ SetCM(r.cm)
                          /\ IF r.ok
                             THEN ContinueLoop(r.cm, below, [act EXCEPT !.stack = r.stack])
                             ELSE Deliver(below, ReturnErr(act, r.err))
                          /\ UNCHANGED <<heap, init_failed>>
                  [] entry # NoEntry /\ entry.state = "Loaded" ->
                       /\ ContinueLoop(CM, below, [act EXCEPT !.stack = stack])
                       /\ UNCHANGED <<classes_by_id, name_map, next_class_id, heap,
                                      init_failed>>
                  [] entry # NoEntry /\ entry.state = "Resolved" ->
                       \E r \in {step_resolved(CM, stack, class_name, entry)} :
                          /\ r.cm.next_class_id <= MaxClassIds
                          /\ SetCM(r.cm)
                          /\ IF r.ok
                             THEN ContinueLoop(r.cm, below, [act EXCEPT !.stack = r.stack])
                             ELSE Deliver(below, ReturnErr(act, r.err))
                          /\ UNCHANGED <<heap, init_failed>>
                  [] entry # NoEntry /\ entry.state = "Loading" ->
                       \E r \in {step_loading(CM, class_name, entry)} :
                       \E clid \in {IF r.ok THEN clinit_of(r.cm, entry.class_id) ELSE NoId} :
                       \E done \in {IF r.ok THEN mark_initialized(r.cm, entry.class_id)
                                     ELSE r.cm} :
                          IF ~r.ok
                          THEN /\ Deliver(below, ReturnErr(act, r.err))
                               /\ UNCHANGED <<classes_by_id, name_map, next_class_id,
                                              heap, init_failed>>
                          ELSE IF clid = NoId
                          THEN /\ SetCM(done)
                               /\ ContinueLoop(done, below, [act EXCEPT !.stack = stack])
                               /\ UNCHANGED <<heap, init_failed>>
                          ELSE /\ SetCM(r.cm)
                               /\ calls' = Append(below,
                                     [act EXCEPT !.stack = stack,
                                                 !.initializing = entry.class_id,
                                                 !.call_sites = <<>>,
                                                 !.thread = push_frame(Thread_new,
                                                     Frame_new(entry.class_id, clid, 0))])
                               /\ last' = last
                               /\ UNCHANGED <<heap, init_failed>>
    /\ UNCHANGED <<ops, panicked>>

(***************************************************************************)
(* Where an invoke* at the current pc is expected to resume: the pc after  *)
(* the instruction and the invoker's operand stack without the arguments   *)
(* (and without the receiver, unless the call is static).                  *)
(***************************************************************************)
CallSite(cm, thread) ==
    LET frame == current_frame(thread)
        class == get_class_by_id(cm, frame.class)
        code == get_code(get_method_by_index(class, frame.method))
        inst == read_instruction(code.instructions, thread.pc)
        ref == get_method_ref(class.constant_pool, inst.operand)
        receiver == IF inst.opcode = OP_INVOKESTATIC THEN 0 ELSE 1
        st == frame.operand_stack
    IN [ret_pc |-> thread.pc + inst.size,
        base |-> SubSeq(st, 1, Len(st) - args_count(ref.method_descriptor) - receiver)]

NextCallSites(cm, act, r) ==
    IF Len(r.thread.stack) > Len(act.thread.stack)
    THEN Append(act.call_sites, CallSite(cm, act.thread))
    ELSE IF Len(r.thread.stack) < Len(act.thread.stack) /\ act.call_sites # <<>>
    THEN Front(act.call_sites)
    ELSE act.call_sites

(***************************************************************************)
(* Thread::execute: one instruction of the running thread (the init_thread *)
(* of execute_class_init, or the thread of execute_thread), with what its  *)
(* caller does when the thread ends.                                       *)
(***************************************************************************)
ThreadStep ==
    /\ calls # <<>> /\ ~panicked
    /\ LET act == Last(calls)
           below == Front(calls)
       IN /\ act.kind = "run" \/ act.initializing # NoId
          /\ act.thread.stack # <<>>
          /\ \E r \in {Thread_step(CM, heap, act.thread, act.loadres)} :
             \E act2 \in {[act EXCEPT !.thread = r.thread, !.loadres = NoEntry,
                                      !.call_sites = NextCallSites(CM, act, r)]} :
             CASE r.status = "Load" ->
                    /\ calls' = Append(calls,
                          Activation("load", "request_class_load", r.load,
                                     entry_name(get_class_by_id(CM, r.load)),
                                     Thread_new))
                    /\ UNCHANGED <<classes_by_id, name_map, next_class_id, heap, last,
                                   init_failed, panicked>>
               [] r.status = "Panic" ->
                    /\ panicked' = TRUE
                    /\ UNCHANGED <<classes_by_id, name_map, next_class_id, heap, calls,
                                   last, init_failed>>
               [] r.status = "Err" ->
                    /\ IF act.kind = "load"
                       THEN /\ Deliver(below, ReturnErr(act, "InitializerError"))
                            /\ init_failed' = init_failed \cup {act.initializing}
                       ELSE /\ Deliver(below, ReturnErr(act, "ExecutionError"))
                            /\ init_failed' = init_failed
                    /\ heap' = r.heap
                    /\ UNCHANGED <<classes_by_id, name_map, next_class_id, panicked>>
               [] r.status \in {"Next", "JumpRelative", "JumpAbsolute", "FrameChange"} ->
                    /\ calls' = Append(below, act2)
                    /\ heap' = r.heap
                    /\ SetCM(apply_put(CM, r.put))
                    /\ UNCHANGED <<last, init_failed, panicked>>
               [] r.status = "Completed" ->
                    /\ heap' = r.heap
                    /\ IF act.kind = "load"
                       THEN LET done == mark_initialized(CM, act.initializing)
                            IN /\ SetCM(done)
                               /\ ContinueLoop(done, below,
                                               [act2 EXCEPT !.initializing = NoId])
                       ELSE /\ Deliver(below,
                                  LoadResult(act.via, act.arg.id, TRUE, act.arg.id, "",
                                             NoEntry))
                            /\ UNCHANGED <<classes_by_id, name_map, next_class_id>>
                    /\ UNCHANGED <<init_failed, panicked>>
    /\ UNCHANGED ops

Next ==
    \/ \E class_name \in RequestedNames :
          CallGetOrResolveClass(class_name) /\ VmOnly
    \/ \E class_id \in DOMAIN classes_by_id \cup {next_class_id} :
          CallRequestClassLoad(class_id) /\ VmOnly
    \/ CallExecuteThread /\ VmOnly
    \/ LoaderStep /\ VmOnly
    \/ ThreadStep /\ VmOnly

Spec == Init /\ [][Next]_vars

(***************************************************************************)
(* Running single methods: a Vm user loads a class of programs, then calls *)
(* create_thread on one of its static methods with int and long arguments  *)
(* and execute_thread on the thread.                                       *)
(***************************************************************************)
IntInputs == {MinI32, 0 - 7, 0 - 1, 0, 2}

ThreadArgs ==
    {<<>>} \cup {<<Slot_Int(a)>> : a \in IntInputs}
    \cup {<<Slot_Int(a), Slot_Int(b)>> : a \in IntInputs, b \in IntInputs}
    \cup {<<Slot_Int(a), Slot_Long(1), Slot_Int(b)>> : a \in {0, 2}, b \in {0, 2}}

(* The arguments have the types the method's descriptor names. *)
ArgsMatch(args, descriptor) ==
    /\ Len(args) = args_count(descriptor)
    /\ \A k \in 1..Len(args) :
          args[k].tag = (IF descriptor.parameters[k] = "J" THEN "Long" ELSE "Int")

(* The methods a caller starts a thread on: static, int and long           *)
(* parameters only, and no class initializer.                              *)
EntryMethods(cm, class_id) ==
    LET class == get_class_by_id(cm, class_id)
    IN IF ~IsLoaded(class) THEN {}
       ELSE {i \in 0..(Len(class.methods) - 1) :
                /\ is_static(class.methods[i + 1])
                /\ class.methods[i + 1].name # "<clinit>"
                /\ \A k \in 1..Len(class.methods[i + 1].descriptor.parameters) :
                      class.methods[i + 1].descriptor.parameters[k] \in {"I", "J"}}

CallCreateThread(class_id, method, args) ==
    LET class == get_class_by_id(CM, class_id)
        made == Vm_create_thread(CM, class_id, method, args)
    IN /\ Idle
       /\ method \in EntryMethods(CM, class_id)
       /\ ArgsMatch(args, get_method_by_index(class, method).descriptor)
       /\ IF ~made.ok
          THEN panicked' = TRUE /\ calls' = calls
          ELSE /\ panicked' = panicked
               /\ calls' = <<Activation("run", "execute_thread", class_id,
                                        class.name, made.thread)>>
       /\ ops' = ops + 1
       /\ UNCHANGED <<classes_by_id, name_map, next_class_id, heap, last, init_failed>>

OpcodeNext ==
    \/ \E class_name \in ProgramClassNames :
          CallGetOrResolveClass(class_name) /\ VmOnly
    \/ \E class_id \in DOMAIN classes_by_id :
       \E method \in EntryMethods(CM, class_id) :
       \E args \in ThreadArgs :
          CallCreateThread(class_id, method, args) /\ VmOnly
    \/ LoaderStep /\ VmOnly
    \/ ThreadStep /\ VmOnly

OpcodeSpec == Init /\ [][OpcodeNext]_vars

(***************************************************************************)
(* Observers shared by the properties below.                               *)
(***************************************************************************)

(* LoadedClass as the specification names its states. *)
StateRank(entry) ==
    IF entry = NoEntry THEN 0
    ELSE IF entry.state = "Resolved" THEN 1
    ELSE IF entry.state = "Loading" THEN 2
    ELSE IF ~entry.initialized THEN 3
    ELSE 4

Done(entry) == IsLoaded(entry) /\ entry.initialized

(* Every result a get_or_resolve_class run has handed back and that is     *)
(* still held: by the entry point, or by the instruction waiting for it.   *)
HeldResults ==
    (IF last = NoEntry THEN {} ELSE {last})
    \cup {calls[i].loadres : i \in {j \in 1..Len(calls) : calls[j].loadres # NoEntry}}

(* The instruction the running thread is about to execute. *)
CurrentInstruction ==
    LET thread == Last(calls).thread
        frame == current_frame(thread)
        class == get_class_by_id(CM, frame.class)
    IN read_instruction(get_code(get_method_by_index(class, frame.method)).instructions,
                        thread.pc)

(* The step pushed a frame on, or popped the top frame off, the thread of  *)
(* the running activation.                                                 *)
FramePushed ==
    /\ calls # <<>> /\ Len(calls') = Len(calls)
    /\ Len(Last(calls').thread.stack) = Len(Last(calls).thread.stack) + 1
    /\ Len(Last(calls).thread.stack) >= 1

FramePopped ==
    /\ calls # <<>> /\ Len(calls') = Len(calls)
    /\ Len(Last(calls').thread.stack) = Len(Last(calls).thread.stack) - 1
    /\ Len(Last(calls').thread.stack) >= 1

(***************************************************************************)
(* C1: class ids are stable.  Once a name is in name_map, no step changes  *)
(* the id it maps to.                                                      *)
(***************************************************************************)
C1_ClassIdsStable ==
    [][\A n \in DOMAIN name_map :
          n \in DOMAIN name_map' /\ name_map'[n] = name_map[n]]_vars

(***************************************************************************)
(* C2: for every id of the class table, the name of the entry stored under *)
(* it maps back to that id: id_of_class(name_of(id)) = id.                 *)
(***************************************************************************)
C2_IdOfNameOfId ==
    \A id \in DOMAIN classes_by_id :
        id_of_class(CM, entry_name(classes_by_id[id])) = id

(***************************************************************************)
(* C3: invokevirtual dispatches on the receiver's runtime class.  Whenever *)
(* an invokevirtual pushes a frame, the frame runs the method that the     *)
(* lookup starting at the class of the receiver (local 0) selects.         *)
(***************************************************************************)
C3_VirtualDispatchOnReceiver ==
    [][(FramePushed /\ CurrentInstruction.opcode = OP_INVOKEVIRTUAL) =>
          LET invoker == current_frame(Last(calls).thread)
              ref == get_method_ref(get_class_by_id(CM, invoker.class).constant_pool,
                                    CurrentInstruction.operand)
              callee == current_frame(Last(calls').thread)
              receiver == heap[callee.local_variables[1].v]
              selected == resolve_method(CM, receiver.class_id, receiver.class_id,
                                         ref.method_name, ref.method_descriptor, FALSE)
          IN /\ callee.class = selected.class_id
             /\ callee.method = selected.index]_vars

(***************************************************************************)
(* C4: a cycle of required dependencies is reported.  When the loader      *)
(* takes from its work list a Resolved class with a required dependency    *)
(* that is not Loaded, is on the same work list and is Resolved or         *)
(* Loading, the call ends there with a circular-dependency error.          *)
(***************************************************************************)
RequiredDependencyOnWorkList ==
    /\ calls # <<>>
    /\ LET act == Last(calls)
       IN /\ act.kind = "load" /\ act.initializing = NoId /\ act.stack # <<>>
          /\ LET entry == get_class_by_name(CM, Last(act.stack))
             IN /\ entry # NoEntry /\ entry.state = "Resolved"
                /\ \E d \in Range(unresolved_of(CM, entry)) :
                      /\ d[2]
                      /\ d[1] \in Range(act.stack)
                      /\ StateRank(get_class_by_name(CM, d[1])) \in {1, 2}

C4_CycleReported ==
    [][RequiredDependencyOnWorkList =>
          /\ Len(calls') = Len(calls) - 1
          /\ LET res == IF calls' = <<>> THEN last' ELSE Last(calls').loadres
             IN res # NoEntry /\ ~res.ok /\ res.err = "CircularDependency"]_vars

(***************************************************************************)
(* C5: a class whose <clinit> failed is Failed for good.  No load hands    *)
(* back Ok for a class whose initializer ended with an error.              *)
(***************************************************************************)
C5_FailedIsTerminal ==
    \A res \in HeldResults :
        (res.op \in {"get_or_resolve_class", "request_class_load"} /\ res.ok)
            => res.id \notin init_failed

(***************************************************************************)
(* C6: a Done class (Loaded, initialized) has its super class and every    *)
(* direct super interface Done.                                            *)
(***************************************************************************)
C6_DoneHasDoneSupers ==
    \A id \in DOMAIN classes_by_id :
        LET class == classes_by_id[id]
        IN Done(class) =>
              /\ class.superclass # NoId => Done(get_class_by_id(CM, class.superclass))
              /\ \A i \in 1..Len(class.interfaces) :
                    Done(get_class_by_id(CM, class.interfaces[i]))

(***************************************************************************)
(* C7: get_or_resolve_class returns only fully initialized classes.  An Ok *)
(* handed to the entry point, or to an instruction of a thread that is not *)
(* running the initializer of the returned class, carries an entry that is *)
(* Loaded with initialized = true.                                         *)
(***************************************************************************)
C7_OkIsInitialized ==
    /\ (last # NoEntry /\ last.op = "get_or_resolve_class" /\ last.ok)
          => (last.state = "Loaded" /\ last.initialized)
    /\ \A i \in 1..Len(calls) :
          (/\ calls[i].loadres # NoEntry /\ calls[i].loadres.ok
           /\ \A j \in 1..i : calls[j].initializing # calls[i].loadres.id)
             => (calls[i].loadres.state = "Loaded" /\ calls[i].loadres.initialized)

(***************************************************************************)
(* C8: class states only move forward.  For every name, the state of the   *)
(* entry reached through the name never moves back in the order            *)
(* Resolved, Loading, Loaded, initialized.                                 *)
(***************************************************************************)
C8_StatesMoveForward ==
    [][\A n \in DOMAIN name_map :
          StateRank(classes_by_id'[name_map'[n]])
             >= StateRank(get_class_by_name(CM, n))]_vars

(***************************************************************************)
(* C9: request_class_load(id) that returns Ok returns that very id, and    *)
(* the entry stored under id is Loaded.                                    *)
(***************************************************************************)
C9_RequestLoadsThatId ==
    \A res \in HeldResults :
        (res.op = "request_class_load" /\ res.ok)
            => (res.id = res.arg.id /\ IsLoaded(get_class_by_id(CM, res.arg.id)))

(***************************************************************************)
(* C10: invoke/return round trip.  When a return pops the callee's frame,  *)
(* the invoker resumes at the pc after its invoke instruction, and its     *)
(* operand stack is the one it had before the invoke without the arguments *)
(* and the receiver, with the returned value on top if the return carries  *)
(* one, and without any InvokationReturnAddress slot on it.                *)
(***************************************************************************)
C10_InvokeReturnRoundTrip ==
    [][FramePopped =>
          LET act == Last(calls)
              site == Last(act.call_sites)
              callee == current_frame(act.thread)
              resumed == Last(calls').thread
              returned == IF CurrentInstruction.opcode = OP_IRETURN
                          THEN <<Last(callee.operand_stack)>> ELSE <<>>
          IN /\ act.call_sites # <<>>
             /\ resumed.pc = site.ret_pc
             /\ current_frame(resumed).operand_stack = site.base \o returned
             /\ \A i \in 1..Len(current_frame(resumed).operand_stack) :
                   current_frame(resumed).operand_stack[i].tag
                      # "InvokationReturnAddress"]_vars

(* Main.main has resumed after `invokestatic sum` with Int(5) on its stack. *)
C10_Witness ==
    /\ calls # <<>> /\ Last(calls).kind = "run"
    /\ Len(Last(calls).thread.stack) = 1
    /\ Last(calls).thread.pc = 14
    /\ current_frame(Last(calls).thread).operand_stack = <<Slot_Int(5)>>

(***************************************************************************)
(* Observers of one instruction of the running thread.                     *)
(***************************************************************************)

(* A thread is running: the next step is an instruction of it. *)
RunningThread ==
    /\ calls # <<>> /\ ~panicked
    /\ Last(calls).kind = "run" \/ Last(calls).initializing # NoId
    /\ Last(calls).thread.stack # <<>>

(* The running thread is about to execute the instruction op. *)
AtOpcode(op) ==
    /\ RunningThread
    /\ CurrentInstruction.ok /\ CurrentInstruction.opcode = op
    /\ Last(calls).loadres = NoEntry

OperandStack == current_frame(Last(calls).thread).operand_stack
LocalVariables == current_frame(Last(calls).thread).local_variables

(* The instruction succeeded in the same frame: the operand stack is st    *)
(* and pc moved n bytes forward.                                           *)
Advanced(st, n) ==
    /\ ~panicked' /\ Len(calls') = Len(calls)
    /\ Len(Last(calls').thread.stack) = Len(Last(calls).thread.stack)
    /\ current_frame(Last(calls').thread).operand_stack = st
    /\ Last(calls').thread.pc = Last(calls).thread.pc + n

(* The instruction returned an error: Thread::execute returned Err to the  *)
(* caller of the thread.                                                   *)
Faulted ==
    /\ ~panicked' /\ Len(calls') = Len(calls) - 1
    /\ LET res == IF calls' = <<>> THEN last' ELSE Last(calls').loadres
       IN res # NoEntry /\ ~res.ok

(***************************************************************************)
(* C17: pop2 succeeds in exactly two shapes, a wide value on top (removed) *)
(* or two narrow values on top (both removed), and is an error on every    *)
(* other operand stack; pop with a wide value on top is an error.          *)
(***************************************************************************)
C17_Pop2Shapes ==
    [][/\ AtOpcode(OP_POP2) =>
             LET st == OperandStack
             IN IF st = <<>> THEN Faulted
                ELSE IF IsWide(Last(st)) THEN Advanced(Front(st), 1)
                ELSE IF Len(st) >= 2 /\ ~IsWide(st[Len(st) - 1])
                THEN Advanced(SubSeq(st, 1, Len(st) - 2), 1)
                ELSE Faulted
       /\ (AtOpcode(OP_POP) /\ OperandStack # <<>> /\ IsWide(Last(OperandStack)))
             => Faulted]_vars

(***************************************************************************)
(* C18: dup_x2 produces the specified shapes.  Form 1: with three narrow   *)
(* values [.., v3, v2, v1] on top, the stack becomes [.., v1, v3, v2, v1]. *)
(* Form 2: with a narrow v1 over a wide v2, the stack becomes              *)
(* [.., v1, v2, v1].  Either way the stack is one slot longer.             *)
(***************************************************************************)
C18_DupX2Shapes ==
    [][AtOpcode(OP_DUP_X2) =>
          LET st == OperandStack
              n == Len(st)
          IN /\ (n >= 3 /\ ~IsWide(st[n]) /\ ~IsWide(st[n - 1]) /\ ~IsWide(st[n - 2]))
                   => Advanced(SubSeq(st, 1, n - 3) \o <<st[n], st[n - 2], st[n - 1], st[n]>>,
                               1)
             /\ (n >= 2 /\ ~IsWide(st[n]) /\ IsWide(st[n - 1]))
                   => Advanced(SubSeq(st, 1, n - 2) \o <<st[n], st[n - 1], st[n]>>, 1)]_vars

(***************************************************************************)
(* C19: idiv/ldiv and irem/lrem on an operand stack [.., a, b] (b on top,  *)
(* b # 0) push a / b, respectively a % b: the value below the top divided  *)
(* by the top, truncated toward zero, with two's-complement wrap, so that  *)
(* Int.MIN / -1 is Int.MIN (and Int.MIN % -1 is 0).                        *)
(***************************************************************************)
DivisionType(op) == IF op \in {OP_IDIV, OP_IREM} THEN "Int" ELSE "Long"

WrappedQuotient(op, a, b) ==
    IF a = MinI32 /\ b = 0 - 1
    THEN (IF op \in {OP_IDIV, OP_LDIV} THEN MinI32 ELSE 0)
    ELSE IF op \in {OP_IDIV, OP_LDIV} THEN TruncDiv(a, b) ELSE TruncRem(a, b)

C19_DivisionOperands ==
    [][\A op \in {OP_IDIV, OP_LDIV, OP_IREM, OP_LREM} :
          AtOpcode(op) =>
             LET st == OperandStack
                 n == Len(st)
             IN (/\ n >= 2
                 /\ st[n].tag = DivisionType(op) /\ st[n - 1].tag = DivisionType(op)
                 /\ st[n].v # 0)
                   => Advanced(Append(SubSeq(st, 1, n - 2),
                                      [tag |-> DivisionType(op),
                                       v |-> WrappedQuotient(op, st[n - 1].v, st[n].v)]),
                               1)]_vars

(***************************************************************************)
(* C20: idiv, ldiv, irem and lrem with a zero divisor (the top of the      *)
(* operand stack) trap as an execution error: Thread::execute returns Err; *)
(* nothing is pushed and the process does not abort.                       *)
(***************************************************************************)
C20_ZeroDivisorFaults ==
    [][\A op \in {OP_IDIV, OP_LDIV, OP_IREM, OP_LREM} :
          AtOpcode(op) =>
             LET st == OperandStack
                 n == Len(st)
             IN (/\ n >= 2
                 /\ st[n].tag = DivisionType(op) /\ st[n - 1].tag = DivisionType(op)
                 /\ st[n].v = 0)
                   => Faulted]_vars

(***************************************************************************)
(* C12: in every frame of every thread, a Long or Double held in           *)
(* local_variables at index i is followed by Tombstone at index i + 1      *)
(* (so every Long/Double store into locals wrote that Tombstone).          *)
(***************************************************************************)
C12_WideLocalsHaveTombstone ==
    \A c \in 1..Len(calls) :
    \A f \in 1..Len(calls[c].thread.stack) :
        LET lv == calls[c].thread.stack[f].local_variables
        IN \A i \in 1..Len(lv) :
              IsWide(lv[i]) => (i < Len(lv) /\ lv[i + 1] = Slot_Tombstone)

(***************************************************************************)
(* C13: Thread::execute ends with Ok(()) and an empty frame stack, or with *)
(* Err at the first instruction that reports an error.  In particular a    *)
(* return executed by the only frame of the thread, void or carrying a     *)
(* value, empties the frame stack and completes the thread: the caller of  *)
(* execute gets Ok (execute_thread returns Ok, execute_class_init marks    *)
(* the class initialized).                                                 *)
(***************************************************************************)
ThreadCompleted ==
    /\ ~panicked'
    /\ IF Last(calls).kind = "run"
       THEN /\ Len(calls') = Len(calls) - 1
            /\ LET res == IF calls' = <<>> THEN last' ELSE Last(calls').loadres
               IN res # NoEntry /\ res.ok /\ res.op = "execute_thread"
       ELSE /\ Last(calls).initializing \in DOMAIN classes_by_id'
            /\ classes_by_id'[Last(calls).initializing].initialized

C13_ReturnOfOnlyFrameCompletes ==
    [][/\ (AtOpcode(OP_RETURN) /\ Len(Last(calls).thread.stack) = 1)
             => ThreadCompleted
       /\ (/\ AtOpcode(OP_IRETURN) /\ Len(Last(calls).thread.stack) = 1
           /\ OperandStack # <<>> /\ Last(OperandStack).tag = "Int")
             => ThreadCompleted]_vars

(***************************************************************************)
(* C11: when an invoke* pushes the callee's frame, the arguments popped    *)
(* from the invoker (the receiver first if the call is not static) are in  *)
(* the callee's locals in declaration order from index 0, a narrow         *)
(* argument in one cell and a Long/Double in cell i with Tombstone in cell *)
(* i + 1; the other locals are Tombstone, the callee's operand stack is    *)
(* empty and pc is 0.                                                      *)
(***************************************************************************)
InvokeOpcodes == {OP_INVOKESTATIC, OP_INVOKESPECIAL, OP_INVOKEVIRTUAL}

(* The cells a list of arguments takes, in order. *)
RECURSIVE ArgumentCells(_)
ArgumentCells(args) ==
    IF args = <<>> THEN <<>>
    ELSE (IF IsWide(Head(args)) THEN <<Head(args), Slot_Tombstone>> ELSE <<Head(args)>>)
            \o ArgumentCells(Tail(args))

(* The arguments the invoke instruction at the current pc takes from the   *)
(* invoker's operand stack, receiver included.                             *)
InvokeArguments ==
    LET invoker == current_frame(Last(calls).thread)
        ref == get_method_ref(get_class_by_id(CM, invoker.class).constant_pool,
                              CurrentInstruction.operand)
        n == args_count(ref.method_descriptor)
                + (IF CurrentInstruction.opcode = OP_INVOKESTATIC THEN 0 ELSE 1)
        st == invoker.operand_stack
    IN SubSeq(st, Len(st) - n + 1, Len(st))

C11_ArgumentsInCalleeLocals ==
    [][(FramePushed /\ CurrentInstruction.opcode \in InvokeOpcodes) =>
          LET callee == current_frame(Last(calls').thread)
              cells == ArgumentCells(InvokeArguments)
              max_locals ==
                  get_code(get_method_by_index(get_class_by_id(CM, callee.class),
                                               callee.method)).max_locals
          IN /\ Len(cells) <= max_locals
             /\ callee.local_variables =
                   cells \o [i \in 1..(max_locals - Len(cells)) |-> Slot_Tombstone]
             /\ callee.operand_stack = <<>>
             /\ Last(calls').thread.pc = 0]_vars

(* Ops.callw has invoked wide(IJI)V on (Int 2, Long 1, Int 3). *)
C11_Witness ==
    /\ calls # <<>> /\ Last(calls).kind = "run"
    /\ Len(Last(calls).thread.stack) = 2
    /\ Last(calls).thread.pc = 0
    /\ LocalVariables = <<Slot_Int(2), Slot_Long(1), Slot_Tombstone, Slot_Int(3)>>

(* The field a getstatic or putstatic at the current pc names: its owner    *)
(* (the implementor of the field reference) and the owner's Field, or       *)
(* NoEntry when the owner is not Loaded or has no such field.               *)
StaticFieldRef ==
    LET frame == current_frame(Last(calls).thread)
        class == get_class_by_id(CM, frame.class)
    IN get_field_ref(class.constant_pool, CurrentInstruction.operand)

StaticFieldOwner == get_class_by_id(CM, StaticFieldRef.implementor)

StaticField ==
    IF StaticFieldRef = NoEntry \/ ~IsLoaded(StaticFieldOwner) THEN NoEntry
    ELSE get_field(StaticFieldOwner, StaticFieldRef.field_name)

(* The running thread is about to execute op, a getstatic or putstatic,     *)
(* whether or not the owner of the field has just been loaded for it.       *)
AtFieldOpcode(op) ==
    /\ RunningThread
    /\ CurrentInstruction.ok /\ CurrentInstruction.opcode = op
    /\ StaticFieldRef # NoEntry

(* The current frame runs the <clinit> of the class class_id. *)
InClinitOf(class_id) ==
    LET frame == current_frame(Last(calls).thread)
        class == get_class_by_id(CM, frame.class)
    IN /\ frame.class = class_id
       /\ get_method_by_index(class, frame.method).name = "<clinit>"

(***************************************************************************)
(* C14: putstatic on a final static field succeeds only when the current   *)
(* frame executes the <clinit> of the class that owns the field; from any  *)
(* other method or any other class's frame it returns an execution error   *)
(* and leaves the value of the field unchanged.                            *)
(***************************************************************************)
C14_FinalPutOnlyInOwnerClinit ==
    [][(/\ AtFieldOpcode(OP_PUTSTATIC)
        /\ StaticField # NoEntry
        /\ is_static(StaticField) /\ is_final(StaticField)
        /\ ~InClinitOf(StaticFieldRef.implementor))
          => /\ Faulted
             /\ classes_by_id'[StaticFieldRef.implementor].fields
                   = classes_by_id[StaticFieldRef.implementor].fields]_vars

(* The getstatic or putstatic at the current pc succeeded: the thread goes *)
(* on with the next instruction of the same frame.                         *)
FieldInstructionSucceeded ==
    /\ ~panicked' /\ Len(calls') = Len(calls)
    /\ Len(Last(calls').thread.stack) = Len(Last(calls).thread.stack)
    /\ Last(calls').thread.pc = Last(calls).thread.pc + 3

(* execute_class_init is running the <clinit> of the class class_id, in    *)
(* this call or in one that waits for this one.                            *)
InitializerRunning(class_id) ==
    \E i \in 1..Len(calls) : calls[i].initializing = class_id

(***************************************************************************)
(* C15: whenever getstatic or putstatic on a field of a class succeeds,    *)
(* that class is Loaded and its <clinit> has completed, or is the one      *)
(* currently running (the re-entrant case).                                *)
(***************************************************************************)
C15_FieldAccessInitializesOwner ==
    [][((AtFieldOpcode(OP_GETSTATIC) \/ AtFieldOpcode(OP_PUTSTATIC))
        /\ FieldInstructionSucceeded)
          => /\ IsLoaded(StaticFieldOwner)
             /\ \/ StaticFieldOwner.initialized
                \/ InitializerRunning(StaticFieldRef.implementor)]_vars

(* The class the instruction at the current pc refers to: the owner of the *)
(* field of getstatic/putstatic, the class of the method of invokestatic,  *)
(* the class of new; NoId for any other instruction.                       *)
ReferredClass ==
    LET frame == current_frame(Last(calls).thread)
        cp == get_class_by_id(CM, frame.class).constant_pool
        inst == CurrentInstruction
    IN IF ~inst.ok THEN NoId
       ELSE IF inst.opcode \in {OP_GETSTATIC, OP_PUTSTATIC}
       THEN IF get_field_ref(cp, inst.operand) = NoEntry THEN NoId
            ELSE get_field_ref(cp, inst.operand).implementor
       ELSE IF inst.opcode = OP_INVOKESTATIC
       THEN IF get_method_ref(cp, inst.operand) = NoEntry THEN NoId
            ELSE get_method_ref(cp, inst.operand).implementor
       ELSE IF inst.opcode = OP_NEW
       THEN IF get_class_ref(cp, inst.operand) = NoEntry THEN NoId
            ELSE get_class_ref(cp, inst.operand).class_id
       ELSE NoId

(* The frames, over all the threads of the calls cs, that execute the      *)
(* <clinit> of the class class_id.                                         *)
ClinitFrames(cs, cm, class_id) ==
    UNION {{<<i, j>> : j \in {k \in 1..Len(cs[i].thread.stack) :
                         /\ cs[i].thread.stack[k].class = class_id
                         /\ cs[i].thread.stack[k].method = clinit_of(cm, class_id)}}
           : i \in 1..Len(cs)}

ShiftedInt(op, v, n) ==
    IF op = OP_ISHL THEN Shl32(v, n)
    ELSE IF op = OP_ISHR THEN Shr32(v, n)
    ELSE IF n = 0 \/ v >= 0 THEN Shr32(v, n)
    ELSE ((Shr32(v, 1) + MaxI32) + 1) \div (2^(n - 1))

ShiftedLong(op, v, n) ==
    IF op = OP_LSHL THEN v * (2^n) ELSE v \div (2^n)

(***************************************************************************)
(* C21: a shift on an operand stack [.., v, s] (the amount s, an Int, on   *)
(* top) succeeds and leaves [.., v shifted by the masked amount]: s & 0x1F *)
(* for ishl/ishr/iushr on an Int v, s & 0x3F for lshl/lshr/lushr on a Long *)
(* v; iushr and lushr are executable and shift zero bits in.               *)
(***************************************************************************)
C21_ShiftsMasked ==
    [][\A op \in {OP_ISHL, OP_ISHR, OP_IUSHR, OP_LSHL, OP_LSHR, OP_LUSHR} :
          LET st == OperandStack
              s == st[Len(st)]
              v == st[Len(st) - 1]
              rest == SubSeq(st, 1, Len(st) - 2)
          IN /\ (/\ AtOpcode(op) /\ op \in {OP_ISHL, OP_ISHR, OP_IUSHR}
                 /\ Len(st) >= 2 /\ s.tag = "Int" /\ v.tag = "Int")
                   => Advanced(Append(rest, Slot_Int(ShiftedInt(op, v.v, s.v % 32))), 1)
             /\ (/\ AtOpcode(op) /\ op \in {OP_LSHL, OP_LSHR, OP_LUSHR}
                 /\ Len(st) >= 2 /\ s.tag = "Int" /\ v.tag = "Long")
                   => Advanced(Append(rest, Slot_Long(ShiftedLong(op, v.v, s.v % 64))), 1)]_vars

(* The running frame executes the method name of its class. *)
InMethod(name) ==
    LET frame == current_frame(Last(calls).thread)
    IN get_method_by_index(get_class_by_id(CM, frame.class), frame.method).name = name

(* The switch at the current pc jumped: the value on top was popped and pc *)
(* is the pc of the switch opcode plus offset.                             *)
Jumped(offset) ==
    /\ ~panicked' /\ Len(calls') = Len(calls)
    /\ Len(Last(calls').thread.stack) = Len(Last(calls).thread.stack)
    /\ current_frame(Last(calls').thread).operand_stack = Front(OperandStack)
    /\ Last(calls').thread.pc = Last(calls).thread.pc + offset

(***************************************************************************)
(* C22: tableswitch pops an Int index and sets pc to the pc of the         *)
(* tableswitch opcode plus default when index < low or index > high, and   *)
(* plus jump_offsets[index - low] otherwise.                               *)
(***************************************************************************)
C22_TableSwitchJumps ==
    [][(/\ AtOpcode(OP_TABLESWITCH)
        /\ OperandStack # <<>> /\ Last(OperandStack).tag = "Int")
          => LET table == CurrentInstruction.operand
                 index == Last(OperandStack).v
             IN IF index < table.low \/ index > table.high
                THEN Jumped(table.default)
                ELSE Jumped(table.jump_offsets[(index - table.low) + 1])]_vars

(* Ops.tsw (tableswitch at pc 1: default 31, low -1, high 2, offsets 32,   *)
(* 33, 34, 35) started on 2 has jumped to 1 + 35.                          *)
C22_Witness ==
    /\ RunningThread /\ InMethod("tsw")
    /\ LocalVariables = <<Slot_Int(2)>>
    /\ OperandStack = <<>>
    /\ Last(calls).thread.pc = 36

(* The keys of the pairs are strictly ascending. *)
Ascending(pairs) ==
    \A i \in 1..(Len(pairs) - 1) : pairs[i][1] < pairs[i + 1][1]

(***************************************************************************)
(* C23: lookupswitch over an ascending key table pops an Int key and sets  *)
(* pc to the pc of the lookupswitch opcode plus the offset of the entry    *)
(* whose key equals it; a key that matches no entry (below the minimum,    *)
(* above the maximum or between two keys) takes the pc of the opcode plus  *)
(* default.                                                                *)
(***************************************************************************)
C23_LookupSwitchJumps ==
    [][(/\ AtOpcode(OP_LOOKUPSWITCH)
        /\ OperandStack # <<>> /\ Last(OperandStack).tag = "Int"
        /\ Ascending(CurrentInstruction.operand.match_offsets))
          => LET table == CurrentInstruction.operand
                 key == Last(OperandStack).v
                 hits == {i \in 1..Len(table.match_offsets) :
                             table.match_offsets[i][1] = key}
             IN IF hits = {}
                THEN Jumped(table.default)
                ELSE \E i \in hits : Jumped(table.match_offsets[i][2])]_vars

(* Ops.lsw3 (lookupswitch at pc 3: default 33, pairs (-1, 34), (0, 35),    *)
(* (2, 36)) started on 2 has jumped to 3 + 36.                             *)
C23_Witness ==
    /\ RunningThread /\ InMethod("lsw3")
    /\ LocalVariables = <<Slot_Int(2)>>
    /\ OperandStack = <<>>
    /\ Last(calls).thread.pc = 39

(***************************************************************************)
(* C24: when at least one operand is NaN, fcmpl and dcmpl push Int(-1) and *)
(* fcmpg and dcmpg push Int(1).                                            *)
(***************************************************************************)
C24_NaNComparisons ==
    [][\A op \in {OP_FCMPL, OP_FCMPG, OP_DCMPL, OP_DCMPG} :
          LET st == OperandStack
              ty == IF op \in {OP_FCMPL, OP_FCMPG} THEN "Float" ELSE "Double"
              value2 == st[Len(st)]
              value1 == st[Len(st) - 1]
          IN (/\ AtOpcode(op) /\ Len(st) >= 2
              /\ value1.tag = ty /\ value2.tag = ty
              /\ is_nan(value1) \/ is_nan(value2))
                => Advanced(Append(SubSeq(st, 1, Len(st) - 2),
                                   Slot_Int(IF op \in {OP_FCMPL, OP_DCMPL}
                                            THEN 0 - 1 ELSE 1)), 1)]_vars

(***************************************************************************)
(* reader: decoding a class file from a byte buffer (ClassFile::from_bytes *)
(* and parse_constant_pool).  A read returns [status, value, pos]: pos is  *)
(* the cursor after it, and positions count from 1.  A U4 that is not an   *)
(* i32 (the magic) is kept as its four big-endian bytes.                   *)
(***************************************************************************)
UnexpectedEof == [status |-> "Err", error |-> "Io(UnexpectedEof)"]
ReaderPanic == [status |-> "Panic"]
ReadOk(value, pos) == [status |-> "Ok", value |-> value, pos |-> pos]

Avail(bytes, p, n) == p + n - 1 <= Len(bytes)
U2At(bytes, p) == bytes[p] * 256 + bytes[p + 1]

(* The tags parse_constant_pool has an arm for. *)
HandledTags == {1, 3, 4, 5, 6, 7, 8, 9, 10, 11, 12}

RECURSIVE BeValue(_)
BeValue(bytes) ==
    IF bytes = <<>> THEN 0 ELSE BeValue(Front(bytes)) * 256 + Last(bytes)

(* The bytes the info of a tag takes after the tag byte; a Utf8Info is its  *)
(* U2 length and that many bytes.                                           *)
InfoSize(tag, bytes, p) ==
    CASE tag = 1 -> IF Avail(bytes, p, 2) THEN 2 + U2At(bytes, p) ELSE 2
      [] tag \in {3, 4, 9, 10, 11, 12} -> 4
      [] tag \in {5, 6} -> 8
      [] tag \in {7, 8} -> 2

ReadInfo(tag, bytes, p) ==
    CASE tag = 1 -> Utf8Info(SubSeq(bytes, p + 2, p + 1 + U2At(bytes, p)))
      [] tag = 3 -> IntegerInfo(I32At(bytes, p - 1))
      [] tag = 4 -> [tag |-> "FloatInfo", bytes |-> SubSeq(bytes, p, p + 3)]
      [] tag = 5 -> LongInfo(BeValue(SubSeq(bytes, p, p + 7)))
      [] tag = 6 -> [tag |-> "DoubleInfo", inner |-> SubSeq(bytes, p, p + 7)]
      [] tag = 7 -> ClassInfo(U2At(bytes, p))
      [] tag = 8 -> [tag |-> "StringInfo", string_index |-> U2At(bytes, p)]
      [] tag = 9 -> FieldRefInfo(U2At(bytes, p), U2At(bytes, p + 2))
      [] tag = 10 -> MethodRefInfo(U2At(bytes, p), U2At(bytes, p + 2))
      [] tag = 11 -> [tag |-> "InterfaceMethodRefInfo", class_index |-> U2At(bytes, p),
                      name_and_type_index |-> U2At(bytes, p + 2)]
      [] tag = 12 -> NameAndTypeInfo(U2At(bytes, p), U2At(bytes, p + 2))

(* parse_constant_pool: the loop `while i < count`, entries pushed so far. *)
RECURSIVE parse_constant_pool(_, _, _, _, _)
parse_constant_pool(bytes, p, count, i, entries) ==
    IF i >= count THEN ReadOk(entries, p)
    ELSE IF ~Avail(bytes, p, 1) THEN UnexpectedEof
    ELSE IF bytes[p] \notin HandledTags THEN ReaderPanic
    ELSE IF ~Avail(bytes, p + 1, InfoSize(bytes[p], bytes, p + 1)) THEN UnexpectedEof
    ELSE parse_constant_pool(
            bytes, p + 1 + InfoSize(bytes[p], bytes, p + 1), count,
            IF bytes[p] \in {5, 6} THEN i + 2 ELSE i + 1,
            IF bytes[p] \in {5, 6}
            THEN entries \o <<ReadInfo(bytes[p], bytes, p + 1), CpTombstone>>
            ELSE Append(entries, ReadInfo(bytes[p], bytes, p + 1)))

(* Vec<AttributeInfo> with count = n: name index, U4 length, info bytes. *)
RECURSIVE ReadAttributes(_, _, _, _)
ReadAttributes(bytes, p, n, sofar) ==
    IF n = 0 THEN ReadOk(sofar, p)
    ELSE IF ~Avail(bytes, p, 6) \/ bytes[p + 2] >= 128 THEN UnexpectedEof
    ELSE IF ~Avail(bytes, p + 6, I32At(bytes, p + 1)) THEN UnexpectedEof
    ELSE ReadAttributes(
            bytes, p + 6 + I32At(bytes, p + 1), n - 1,
            Append(sofar,
                   [attribute_name_index |-> U2At(bytes, p),
                    info |-> SubSeq(bytes, p + 6, p + 5 + I32At(bytes, p + 1))]))

(* Vec<FieldInfo> and Vec<MethodInfo> with count = n. *)
RECURSIVE ReadMembers(_, _, _, _)
ReadMembers(bytes, p, n, sofar) ==
    IF n = 0 THEN ReadOk(sofar, p)
    ELSE IF ~Avail(bytes, p, 8) THEN UnexpectedEof
    ELSE LET attributes == ReadAttributes(bytes, p + 8, U2At(bytes, p + 6), <<>>)
         IN IF attributes.status # "Ok" THEN attributes
            ELSE ReadMembers(bytes, attributes.pos, n - 1,
                             Append(sofar,
                                    FieldInfo(U2At(bytes, p), U2At(bytes, p + 2),
                                              U2At(bytes, p + 4), attributes.value)))

RECURSIVE ReadU2s(_, _, _)
ReadU2s(bytes, p, n) ==
    IF n = 0 THEN <<>> ELSE <<U2At(bytes, p)>> \o ReadU2s(bytes, p + 2, n - 1)

(* The ClassFile fields after the constant pool, in declaration order. *)
ReadClassBody(bytes, constant_pool_count, cp) ==
    LET p == cp.pos
        interfaces_count == U2At(bytes, p + 6)
        q == p + 8 + 2 * interfaces_count
    IN IF ~Avail(bytes, p, 8) \/ ~Avail(bytes, p + 8, 2 * interfaces_count + 2)
       THEN UnexpectedEof
       ELSE LET fields == ReadMembers(bytes, q + 2, U2At(bytes, q), <<>>)
            IN IF fields.status # "Ok" THEN fields
               ELSE IF ~Avail(bytes, fields.pos, 2) THEN UnexpectedEof
               ELSE LET methods == ReadMembers(bytes, fields.pos + 2,
                                              U2At(bytes, fields.pos), <<>>)
                    IN IF methods.status # "Ok" THEN methods
                       ELSE IF ~Avail(bytes, methods.pos, 2) THEN UnexpectedEof
                       ELSE LET attributes ==
                                    ReadAttributes(bytes, methods.pos + 2,
                                                   U2At(bytes, methods.pos), <<>>)
                            IN IF attributes.status # "Ok" THEN attributes
                               ELSE ReadOk(
                                       [magic |-> SubSeq(bytes, 1, 4),
                                        constant_pool_count |-> constant_pool_count,
                                        attributes |-> attributes.value]
                                       @@ MkClassFile(cp.value, U2At(bytes, p + 2),
                                                      U2At(bytes, p + 4),
                                                      ReadU2s(bytes, p + 8, interfaces_count),
                                                      fields.value, methods.value),
                                       attributes.pos)

(* ClassFile::from_bytes.  `constant_pool_count - 1` is a u16 subtraction: *)
(* for a count of 0 it panics in a build with overflow checks and wraps to *)
(* 65535 in one without.                                                   *)
from_bytes(bytes, overflow_checks) ==
    IF ~Avail(bytes, 1, 10) THEN UnexpectedEof
    ELSE IF U2At(bytes, 9) = 0 /\ overflow_checks THEN ReaderPanic
    ELSE LET cp == parse_constant_pool(bytes, 11, (U2At(bytes, 9) + 65535) % 65536,
                                       0, <<>>)
         IN IF cp.status # "Ok" THEN cp
            ELSE ReadClassBody(bytes, U2At(bytes, 9), cp)

(***************************************************************************)
(* Decoding class files: a caller hands from_bytes a buffer and asks the   *)
(* decoded constant pool for entries.  The buffers are class files put     *)
(* together from a magic, up to MaxPoolEntries constant pool entries and   *)
(* the rest of the class; reader.source keeps the parts.                   *)
(***************************************************************************)
MaxPoolEntries == 3

MagicCafeBabe == <<202, 254, 186, 190>>
MagicOther == <<202, 254, 208, 13>>
Version65 == <<0, 0, 0, 65>>

(* Utf8 "A", Integer -7, Long 9, Class #1, and a MethodHandle (tag 15). *)
EntryBytes ==
    {<<1, 0, 1, 65>>, <<3, 255, 255, 255, 249>>, <<5, 0, 0, 0, 0, 0, 0, 0, 9>>,
     <<7, 0, 1>>, <<15, 1, 0, 1>>}

(* No members; one interface and one field with one attribute; cut short. *)
BodyBytes ==
    {<<0, 33, 0, 1, 0, 0, 0, 0, 0, 0, 0, 0, 0, 0>>,
     <<0, 33, 0, 1, 0, 0, 0, 1, 0, 1,
       0, 1, 0, 2, 0, 1, 0, 1, 0, 1, 0, 1, 0, 0, 0, 1, 7, 0, 0, 0, 0>>,
     <<0, 33, 0, 1>>}

PoolInputs == UNION {[1..n -> EntryBytes] : n \in 0..MaxPoolEntries}

RECURSIVE Flatten(_)
Flatten(chunks) ==
    IF chunks = <<>> THEN <<>> ELSE chunks[1] \o Flatten(Tail(chunks))

RECURSIVE PoolSlots(_)
PoolSlots(pool) ==
    IF pool = <<>> THEN 0
    ELSE (IF pool[1][1] \in {5, 6} THEN 2 ELSE 1) + PoolSlots(Tail(pool))

ClassFileBytes(magic, count, pool, body) ==
    magic \o Version65 \o <<count \div 256, count % 256>> \o Flatten(pool) \o body

ReaderInputs ==
    {[magic |-> magic, count |-> 1 + PoolSlots(pool), pool |-> pool, body |-> body] :
        magic \in {MagicCafeBabe, MagicOther}, pool \in PoolInputs, body \in BodyBytes}
    \cup {[magic |-> MagicCafeBabe, count |-> 0, pool |-> <<>>, body |-> body] :
             body \in BodyBytes}

NotDecoded == [status |-> "None"]

ReaderInit ==
    /\ VmInit
    /\ exit_code = NoExit
    /\ reader \in {[source |-> src,
                    bytes |-> ClassFileBytes(src.magic, src.count, src.pool, src.body),
                    decoded |-> NotDecoded, got |-> NoEntry] : src \in ReaderInputs}

VmIdle ==
    UNCHANGED <<classes_by_id, name_map, next_class_id, heap, calls, last, ops,
                init_failed, panicked, exit_code>>

CallFromBytes ==
    /\ reader.decoded = NotDecoded
    /\ \E overflow_checks \in BOOLEAN :
          reader' = [reader EXCEPT !.decoded = from_bytes(reader.bytes, overflow_checks)]
    /\ VmIdle

CallConstantPoolGet(index) ==
    /\ reader.decoded.status = "Ok"
    /\ reader' = [reader EXCEPT
                     !.got = [index |-> index,
                              entry |-> cp_get(reader.decoded.value.constant_pool, index)]]
    /\ VmIdle

ReaderNext ==
    \/ CallFromBytes
    \/ \E index \in 0..(MaxPoolEntries + 3) : CallConstantPoolGet(index)

ReaderSpec == ReaderInit /\ [][ReaderNext]_vars

(* The entry a class file numbers i: its entries are numbered from 1, and  *)
(* a Long or Double takes two numbers, the second one unusable.            *)
RECURSIVE NumberedEntry(_, _, _)
NumberedEntry(pool, number, i) ==
    IF pool = <<>> THEN NoEntry
    ELSE IF i = number THEN ReadInfo(pool[1][1], pool[1], 2)
    ELSE IF pool[1][1] \in {5, 6} /\ i = number + 1 THEN CpTombstone
    ELSE NumberedEntry(Tail(pool),
                       number + (IF pool[1][1] \in {5, 6} THEN 2 ELSE 1), i)

(* C25: for a decoded constant pool with count N, get(i) returns the entry *)
(* the class file numbers i for every i in 1..N-1, the last one included,  *)
(* and returns nothing only for i = 0 and i >= N.                          *)
C25_GetReturnsEveryEntry ==
    (reader # NoEntry /\ reader.got # NoEntry) =>
        LET N == reader.decoded.value.constant_pool_count
            i == reader.got.index
        IN /\ i \in 1..(N - 1) =>
                 reader.got.entry = NumberedEntry(reader.source.pool, 1, i)
           /\ reader.got.entry = NoEntry => (i = 0 \/ i >= N)

(* C26: a buffer with another magic than 0xCAFEBABE, or with a constant    *)
(* pool tag the decoder has no arm for, is answered with a decode error:   *)
(* neither a ClassFile nor a panic.                                        *)
C26_BadInputIsDecodeError ==
    (reader # NoEntry /\ reader.decoded # NotDecoded
        /\ (reader.source.magic # MagicCafeBabe
            \/ \E k \in 1..Len(reader.source.pool) :
                  reader.source.pool[k][1] \notin HandledTags))
    => reader.decoded.status = "Err"

(***************************************************************************)
(* C27: an array load or store whose index is below 0 or not below the     *)
(* array's length ends in an execution error: the process goes on, and the *)
(* array keeps its contents and its length.                                *)
(***************************************************************************)
C27_ArrayAccessBoundsChecked ==
    [][\A op \in {OP_IALOAD, OP_IASTORE} :
          LET st == OperandStack
              at == IF op = OP_IALOAD THEN Len(st) ELSE Len(st) - 1
          IN (/\ AtOpcode(op)
              /\ at >= 2 /\ st[at].tag = "Int"
              /\ st[at - 1].tag = "ArrayReference" /\ st[at - 1].v \in 1..Len(heap)
              /\ (st[at].v < 0 \/ st[at].v >= Len(heap[st[at - 1].v].data)))
             => (Faulted /\ heap' = heap)]_vars

(***************************************************************************)
(* cmd::main: the process loads the main class named on the command line,  *)
(* looks its main method up, runs it on a new thread and exits.  exit_code *)
(* is NoExit while main runs; a panic ends the process with code 101.      *)
(***************************************************************************)
MainClassArgs == ClassNames \cup {"Nope"}

(* Lines 46-47: vm.class_manager_mut().get_or_resolve_class(&main_name). *)
main_get_or_resolve_class(main_name) ==
    /\ exit_code = NoExit /\ last = NoEntry /\ ops = 0
    /\ CallGetOrResolveClass(main_name)
    /\ VmOnly

MainClassAnswer ==
    /\ exit_code = NoExit /\ calls = <<>> /\ ~panicked
    /\ last # NoEntry /\ last.op = "get_or_resolve_class"

(* Lines 50-56 and 71-74: Err(e), or a class that is not Loaded. *)
main_class_not_loaded ==
    /\ MainClassAnswer
    /\ ~last.ok \/ last.state # "Loaded"
    /\ exit_code' = exit(0 - 1)
    /\ UNCHANGED <<classes_by_id, name_map, next_class_id, heap, calls, last, ops,
                   init_failed, panicked, reader>>

(* Lines 58-62: get_method("main", &MAIN_METHOD_DESCRIPTOR) is None. *)
main_method_not_found ==
    /\ MainClassAnswer
    /\ last.ok /\ last.state = "Loaded"
    /\ index_of_method(get_class_by_id(CM, last.id), "main", MAIN_METHOD_DESCRIPTOR) = NoId
    /\ exit_code' = exit(0 - 2)
    /\ UNCHANGED <<classes_by_id, name_map, next_class_id, heap, calls, last, ops,
                   init_failed, panicked, reader>>

(* Lines 64-66 and 76: create_thread and execute_thread. *)
main_execute_thread ==
    /\ exit_code = NoExit
    /\ CallExecuteThread
    /\ VmOnly

(* Lines 76-80: both arms of the match on execute_thread's result log a    *)
(* line, then main goes on to exit(0).                                     *)
main_exit ==
    /\ exit_code = NoExit /\ calls = <<>> /\ ~panicked
    /\ last # NoEntry /\ last.op = "execute_thread"
    /\ exit_code' = exit(0)
    /\ UNCHANGED <<classes_by_id, name_map, next_class_id, heap, calls, last, ops,
                   init_failed, panicked, reader>>

main_panic ==
    /\ exit_code = NoExit /\ panicked
    /\ exit_code' = exit(101)
    /\ UNCHANGED <<classes_by_id, name_map, next_class_id, heap, calls, last, ops,
                   init_failed, panicked, reader>>

CmdNext ==
    \/ \E main_name \in MainClassArgs : main_get_or_resolve_class(main_name)
    \/ LoaderStep /\ VmOnly
    \/ ThreadStep /\ VmOnly
    \/ main_class_not_loaded
    \/ main_method_not_found
    \/ main_execute_thread
    \/ main_exit
    \/ main_panic

CmdSpec == Init /\ [][CmdNext]_vars

(***************************************************************************)
(* C28: once the process has exited, its code is 0 exactly when the main   *)
(* thread ran to completion: a main class that cannot be loaded, a missing *)
(* main method and an execution error of the main thread all leave a       *)
(* non-zero code.                                                          *)
(***************************************************************************)
C28_ExitCodes ==
    exit_code # NoExit =>
        (exit_code.code = 0 <=>
            (/\ ~panicked /\ last # NoEntry
             /\ last.op = "execute_thread" /\ last.ok))

(***************************************************************************)
(* reader::descriptor on the characters of its input.  A string is the     *)
(* sequence of its characters; a nom parser takes the input and a position *)
(* p (the rest of the input is input[p..]) and answers [ok, pos, value],   *)
(* pos being the position after what it consumed.                          *)
(***************************************************************************)
NomErr == [ok |-> FALSE, pos |-> 0, value |-> NoEntry]
NomOk(pos, value) == [ok |-> TRUE, pos |-> pos, value |-> value]

(* tag(t) for a tag of one character. *)
tag(t, input, p) ==
    IF p <= Len(input) /\ input[p] = t THEN NomOk(p + 1, t) ELSE NomErr

(* UnqualifiedName::parse: many1(none_of("./[;")). *)
RECURSIVE NameEnd(_, _)
NameEnd(input, p) ==
    IF p <= Len(input) /\ input[p] \notin {".", "/", "[", ";"}
    THEN NameEnd(input, p + 1) ELSE p

UnqualifiedName_parse(input, p) ==
    IF NameEnd(input, p) = p THEN NomErr
    ELSE NomOk(NameEnd(input, p), SubSeq(input, p, NameEnd(input, p) - 1))

(* ClassName::parse: separated_list1(alt((tag("/"), tag("."))), name).  A  *)
(* separator that no name follows is left in the input.                    *)
RECURSIVE separated_list1(_, _, _)
separated_list1(input, p, parts) ==
    IF p <= Len(input) /\ input[p] \in {"/", "."}
       /\ UnqualifiedName_parse(input, p + 1).ok
    THEN separated_list1(input, UnqualifiedName_parse(input, p + 1).pos,
                         Append(parts, UnqualifiedName_parse(input, p + 1).value))
    ELSE NomOk(p, parts)

ClassName_parse(input, p) ==
    IF ~UnqualifiedName_parse(input, p).ok THEN NomErr
    ELSE separated_list1(input, UnqualifiedName_parse(input, p).pos,
                         <<UnqualifiedName_parse(input, p).value>>)

BaseType_parse(input, p) ==
    IF p <= Len(input) /\ input[p] \in {"B", "C", "D", "F", "I", "J", "S", "Z"}
    THEN NomOk(p + 1, [tag |-> "BaseType", ty |-> input[p]]) ELSE NomErr

ObjectType_parse(input, p) ==
    IF ~tag("L", input, p).ok \/ ~ClassName_parse(input, p + 1).ok THEN NomErr
    ELSE IF ~tag(";", input, ClassName_parse(input, p + 1).pos).ok THEN NomErr
    ELSE NomOk(ClassName_parse(input, p + 1).pos + 1,
               [tag |-> "ObjectType", class_name |-> ClassName_parse(input, p + 1).value])

(* FieldType::parse_field_type: alt((BaseType, ObjectType, ArrayType)),    *)
(* ArrayType::parse being tag("[") and then a field type.                  *)
RECURSIVE parse_field_type(_, _)
parse_field_type(input, p) ==
    IF BaseType_parse(input, p).ok THEN BaseType_parse(input, p)
    ELSE IF ObjectType_parse(input, p).ok THEN ObjectType_parse(input, p)
    ELSE IF ~tag("[", input, p).ok THEN NomErr
    ELSE LET item == parse_field_type(input, p + 1)
         IN IF ~item.ok THEN NomErr
            ELSE NomOk(item.pos, [tag |-> "ArrayType", item |-> item.value])

(* many0(FieldType::parse_field_type). *)
RECURSIVE many0_field_type(_, _, _)
many0_field_type(input, p, sofar) ==
    LET item == parse_field_type(input, p)
    IN IF ~item.ok THEN NomOk(p, sofar)
       ELSE many0_field_type(input, item.pos, Append(sofar, item.value))

parse_parameters(input, p) ==
    IF ~tag("(", input, p).ok THEN NomErr
    ELSE LET parameters == many0_field_type(input, p + 1, <<>>)
         IN IF ~tag(")", input, parameters.pos).ok THEN NomErr
            ELSE NomOk(parameters.pos + 1, parameters.value)

parse_return_type(input, p) ==
    IF parse_field_type(input, p).ok THEN parse_field_type(input, p)
    ELSE IF tag("V", input, p).ok THEN NomOk(p + 1, NoEntry)
    ELSE NomErr

MethodDescriptor_parse(input, p) ==
    LET parameters == parse_parameters(input, p)
    IN IF ~parameters.ok THEN NomErr
       ELSE LET return_type == parse_return_type(input, parameters.pos)
            IN IF ~return_type.ok THEN NomErr
               ELSE NomOk(return_type.pos,
                          MethodDescriptor(parameters.value, return_type.value))

DescriptorOk(value) == [ok |-> TRUE, error |-> "", value |-> value]
DescriptorErr(error) == [ok |-> FALSE, error |-> error, value |-> NoEntry]

(* The parsers without the test of the remainder: whatever the grammar     *)
(* consumed at the start of the input is the answer.                       *)
parse_field_descriptor_prefix(input) ==
    IF ~parse_field_type(input, 1).ok THEN DescriptorErr("UndecodableDescriptor")
    ELSE DescriptorOk(parse_field_type(input, 1).value)

(* descriptor::parse_field_descriptor: `rem.is_empty()` is pos past the    *)
(* last character.                                                          *)
parse_field_descriptor_chars(input) ==
    IF ~parse_field_type(input, 1).ok THEN DescriptorErr("UndecodableDescriptor")
    ELSE IF parse_field_type(input, 1).pos = Len(input) + 1
    THEN DescriptorOk(parse_field_type(input, 1).value)
    ELSE DescriptorErr("TooLongDescriptor")

(* descriptor::parse_method_descriptor. *)
parse_method_descriptor_chars(input) ==
    IF ~MethodDescriptor_parse(input, 1).ok THEN DescriptorErr("UndecodableDescriptor")
    ELSE IF MethodDescriptor_parse(input, 1).pos = Len(input) + 1
    THEN DescriptorOk(MethodDescriptor_parse(input, 1).value)
    ELSE DescriptorErr("TooLongDescriptor")

(***************************************************************************)
(* Parsing descriptors: a caller hands a string of up to MaxDescriptorLen  *)
(* characters to one of the two parsers.  reader holds the string and the  *)
(* answer.                                                                 *)
(***************************************************************************)
MaxDescriptorLen == 4

DescriptorChars == {"I", "L", "[", ";", "/", "a", "(", ")", "V"}

DescriptorInputs == UNION {[1..n -> DescriptorChars] : n \in 0..MaxDescriptorLen}

DescriptorInit ==
    /\ VmInit
    /\ exit_code = NoExit
    /\ reader \in {[input |-> input, fn |-> NoName, parsed |-> NoEntry] :
                      input \in DescriptorInputs}

CallParseFieldDescriptor ==
    /\ reader.fn = NoName
    /\ reader' = [reader EXCEPT !.fn = "parse_field_descriptor",
                                !.parsed = parse_field_descriptor_chars(reader.input)]
    /\ VmIdle

CallParseMethodDescriptor ==
    /\ reader.fn = NoName
    /\ reader' = [reader EXCEPT !.fn = "parse_method_descriptor",
                                !.parsed = parse_method_descriptor_chars(reader.input)]
    /\ VmIdle

DescriptorNext ==
    \/ CallParseFieldDescriptor
    \/ CallParseMethodDescriptor

DescriptorSpec == DescriptorInit /\ [][DescriptorNext]_vars

(* The grammar of descriptors, on whole strings: a class name is made of   *)
(* names separated by "/" or ".", a name being one or more characters      *)
(* other than . / [ ;                                                      *)
IsClassName(s) ==
    /\ s # <<>>
    /\ \A i \in 1..Len(s) : s[i] \notin {"[", ";"}
    /\ s[1] \notin {"/", "."} /\ s[Len(s)] \notin {"/", "."}
    /\ \A i \in 1..(Len(s) - 1) : ~(s[i] \in {"/", "."} /\ s[i + 1] \in {"/", "."})

(* Array brackets, then a base type or L ClassName ; *)
IsFieldDescriptor(s) ==
    \E k \in 0..Len(s) :
       /\ \A i \in 1..k : s[i] = "["
       /\ LET t == SubSeq(s, k + 1, Len(s))
          IN \/ Len(t) = 1 /\ t[1] \in {"B", "C", "D", "F", "I", "J", "S", "Z"}
             \/ /\ Len(t) >= 3 /\ t[1] = "L" /\ t[Len(t)] = ";"
                /\ IsClassName(SubSeq(t, 2, Len(t) - 1))

RECURSIVE IsParameters(_)
IsParameters(s) ==
    \/ s = <<>>
    \/ \E k \in 1..Len(s) :
          IsFieldDescriptor(SubSeq(s, 1, k)) /\ IsParameters(SubSeq(s, k + 1, Len(s)))

(* ( parameters ) and a return descriptor, V or a field type. *)
IsMethodDescriptor(s) ==
    /\ s # <<>> /\ s[1] = "("
    /\ \E j \in 2..Len(s) :
          /\ s[j] = ")"
          /\ IsParameters(SubSeq(s, 2, j - 1))
          /\ LET r == SubSeq(s, j + 1, Len(s))
             IN r = <<"V">> \/ IsFieldDescriptor(r)

StoredClassIds(class) ==
    (IF class.superclass = NoId THEN {} ELSE {class.superclass})
    \cup Range(class.interfaces)
    \cup {class.constant_pool.entries[k].class_id :
             k \in {j \in 1..Len(class.constant_pool.entries) :
                       class.constant_pool.entries[j].tag = "ClassReference"}}
    \cup {class.constant_pool.entries[k].implementor :
             k \in {j \in 1..Len(class.constant_pool.entries) :
                       class.constant_pool.entries[j].tag
                          \in {"FieldReference", "MethodReference"}}}

HasRuntimeForm(entry) ==
    entry.tag \in {"IntegerInfo", "LongInfo", "FieldRefInfo", "MethodRefInfo",
                   "ClassInfo"}

(* rt is the runtime entry of the class-file entry `entry` of the pool     *)
(* ccp: the same constant, or a reference to the same class and member.    *)
BuiltFrom(rt, ccp, entry) ==
    CASE entry.tag = "IntegerInfo" ->
            rt = [tag |-> "IntegerConstant", value |-> entry.value]
      [] entry.tag = "LongInfo" ->
            rt = [tag |-> "LongConstant", value |-> entry.value]
      [] entry.tag = "MethodRefInfo" ->
            /\ rt.tag = "MethodReference"
            /\ rt.method_name = cp_get_name_and_type(ccp, entry.name_and_type_index)[1]
            /\ entry_name(get_class_by_id(CM, rt.implementor))
                  = cp_get_class_name(ccp, entry.class_index)
      [] entry.tag = "FieldRefInfo" ->
            /\ rt.tag = "FieldReference"
            /\ rt.field_name = cp_get_name_and_type(ccp, entry.name_and_type_index)[1]
            /\ entry_name(get_class_by_id(CM, rt.implementor))
                  = cp_get_class_name(ccp, entry.class_index)
      [] entry.tag = "ClassInfo" ->
            IF IsArrayTypeName(cp_get_utf8_string(ccp, entry.name_index))
            THEN rt.tag = "ArrayReference"
            ELSE /\ rt.tag = "ClassReference"
                 /\ entry_name(get_class_by_id(CM, rt.class_id))
                       = cp_get_utf8_string(ccp, entry.name_index)
      [] OTHER -> FALSE

(* The class file a Loaded class was built from. *)
ClassFileOf(class) == load_classfile(class.name).classfile

(***************************************************************************)
(* C31: the runtime constant pool of a loaded class dereferences by raw    *)
(* class-file index: get(i) is the runtime entry built from class-file     *)
(* entry i when that entry has a runtime form, and no entry when i is 0,   *)
(* out of range, the index after a Long / Double, or an entry without a    *)
(* runtime form (Utf8, NameAndType).                                       *)
(***************************************************************************)
C31_RawIndexDereference ==
    \A id \in DOMAIN classes_by_id :
       IsLoaded(classes_by_id[id]) =>
          \A i \in 0..(Len(ClassFileOf(classes_by_id[id]).constant_pool) + 1) :
             IF /\ i \in 1..Len(ClassFileOf(classes_by_id[id]).constant_pool)
                /\ HasRuntimeForm(ClassFileOf(classes_by_id[id]).constant_pool[i])
             THEN BuiltFrom(rt_get(classes_by_id[id].constant_pool, i),
                            ClassFileOf(classes_by_id[id]).constant_pool,
                            ClassFileOf(classes_by_id[id]).constant_pool[i])
             ELSE rt_get(classes_by_id[id].constant_pool, i) = NoEntry

(***************************************************************************)
(* Frames and the methods they execute.                                    *)
(***************************************************************************)
(* The Code attribute of the method a frame executes. *)
FrameCode(frame) ==
    get_code(get_method_by_index(get_class_by_id(CM, frame.class), frame.method))

(***************************************************************************)
(* C32: every frame of every thread (the threads of execute_thread and the *)
(* init_thread of each class initialization under way) has exactly         *)
(* max_locals local-variable cells, max_locals being that of the method    *)
(* the frame executes.                                                     *)
(***************************************************************************)
C32_FramesHaveMaxLocals ==
    \A c \in 1..Len(calls) :
       \A f \in 1..Len(calls[c].thread.stack) :
          Len(calls[c].thread.stack[f].local_variables)
             = FrameCode(calls[c].thread.stack[f]).max_locals

(***************************************************************************)
(* C33: in every frame the operand-stack depth is at most the max_stack of *)
(* the method the frame executes, the InvokationReturnAddress an invoke    *)
(* leaves on the invoker's stack included.                                 *)
(***************************************************************************)
C33_StackWithinMaxStack ==
    \A c \in 1..Len(calls) :
       \A f \in 1..Len(calls[c].thread.stack) :
          Len(calls[c].thread.stack[f].operand_stack)
             <= FrameCode(calls[c].thread.stack[f]).max_stack

(***************************************************************************)
(* Method resolution through super-interfaces.                             *)
(***************************************************************************)
(* The classes on the superclass chain of a class, the class included. *)
RECURSIVE SuperclassChain(_, _)
SuperclassChain(cm, class_id) ==
    IF class_id = NoId \/ ~IsLoaded(get_class_by_id(cm, class_id)) THEN {}
    ELSE {class_id} \cup SuperclassChain(cm, get_class_by_id(cm, class_id).superclass)

(* The interfaces in ids together with every interface they extend. *)
RECURSIVE InterfaceClosure(_, _, _)
InterfaceClosure(cm, ids, fuel) ==
    LET more == ids \cup UNION {Range(get_class_by_id(cm, i).interfaces) :
                                   i \in {j \in ids : IsLoaded(get_class_by_id(cm, j))}}
    IN IF fuel = 0 \/ more = ids THEN ids ELSE InterfaceClosure(cm, more, fuel - 1)

(* The super-interfaces of a class: those a class on its chain implements  *)
(* directly and those inherited through interface extension.               *)
SuperInterfaces(cm, class_id) ==
    InterfaceClosure(cm,
        UNION {Range(get_class_by_id(cm, c).interfaces) :
                  c \in SuperclassChain(cm, class_id)},
        MaxClassIds)

(* The class declares (name, descriptor) as a method that is neither       *)
(* private, nor static, nor abstract.                                      *)
DeclaresUsable(cm, class_id, name, descriptor) ==
    LET class == get_class_by_id(cm, class_id)
        index == index_of_method(class, name, descriptor)
    IN /\ IsLoaded(class)
       /\ index # NoId
       /\ ~is_private(get_method_by_index(class, index))
       /\ ~is_static(get_method_by_index(class, index))
       /\ ~is_abstract(get_method_by_index(class, index))

(* The (name, descriptor) pairs looked up. *)
ResolvedMethodKeys ==
    {<<n, parse_method_descriptor("()I").descriptor>> : n \in {"d", "e", "a", "t", "m", "zz"}}

(***************************************************************************)
(* C34: when no class on the target's superclass chain declares (name,     *)
(* descriptor), resolve_method answers a declaration of a super-interface  *)
(* of the target (implemented by a class on the chain, or inherited        *)
(* through interface extension) that is neither private, static nor        *)
(* abstract, and answers not-found exactly when no super-interface has     *)
(* such a declaration.                                                     *)
(***************************************************************************)
C34_ResolveThroughSuperInterfaces ==
    \A id \in DOMAIN classes_by_id :
    \A key \in ResolvedMethodKeys :
       (/\ IsLoaded(classes_by_id[id])
        /\ \A c \in SuperclassChain(CM, id) :
              index_of_method(get_class_by_id(CM, c), key[1], key[2]) = NoId)
       => /\ resolve_method(CM, id, id, key[1], key[2], FALSE).ok
          /\ resolve_method(CM, id, id, key[1], key[2], FALSE).class_id # NoId
                => /\ resolve_method(CM, id, id, key[1], key[2], FALSE).class_id
                         \in SuperInterfaces(CM, id)
                   /\ DeclaresUsable(CM,
                         resolve_method(CM, id, id, key[1], key[2], FALSE).class_id,
                         key[1], key[2])
                   /\ resolve_method(CM, id, id, key[1], key[2], FALSE).index
                         = index_of_method(
                              get_class_by_id(CM,
                                 resolve_method(CM, id, id, key[1], key[2], FALSE).class_id),
                              key[1], key[2])
          /\ resolve_method(CM, id, id, key[1], key[2], FALSE).class_id = NoId
                <=> ~\E i \in SuperInterfaces(CM, id) :
                        DeclaresUsable(CM, i, key[1], key[2])

(***************************************************************************)
(* C35: no operand stack of any frame of any thread holds a Tombstone      *)
(* slot; getstatic of a static field without ConstantValue that was never  *)
(* assigned pushes none.                                                   *)
(***************************************************************************)
C35_NoTombstoneOnOperandStack ==
    \A c \in 1..Len(calls) :
       \A f \in 1..Len(calls[c].thread.stack) :
          \A k \in 1..Len(calls[c].thread.stack[f].operand_stack) :
             calls[c].thread.stack[f].operand_stack[k] # Slot_Tombstone

(***************************************************************************)
(* C36: a class load requested by an instruction leaves the requesting     *)
(* thread as it was.  In every step, the activation that requests a load   *)
(* and every activation waiting for one keep their thread (frame stack,    *)
(* operand stacks, locals and pc); the load starts on a thread of its own, *)
(* new and empty, and <clinit> is started as the only frame of that        *)
(* thread.                                                                 *)
(***************************************************************************)
C36_LoadLeavesRequesterUntouched ==
    [][/\ \A c \in 1..Len(calls) :
             (c < Len(calls) \/ Len(calls') > Len(calls))
                => /\ c <= Len(calls')
                   /\ calls'[c].thread = calls[c].thread
       /\ (calls # <<>> /\ Len(calls') > Len(calls))
             => /\ Len(calls') = Len(calls) + 1
                /\ Last(calls').kind = "load"
                /\ Last(calls').thread = Thread_new
       /\ \A c \in 1..Len(calls) :
             (/\ c <= Len(calls')
              /\ calls[c].initializing = NoId
              /\ calls'[c].initializing # NoId)
                => /\ c = Len(calls)
                   /\ calls'[c].kind = "load"
                   /\ calls'[c].thread.pc = 0
                   /\ Len(calls'[c].thread.stack) = 1
                   /\ calls'[c].thread.stack[1].class = calls'[c].initializing
                   /\ calls'[c].thread.stack[1].method
                         = clinit_of(CM', calls'[c].initializing)]_vars

(* The load an instruction requested has run the class initializer of the  *)
(* class and returned to the requesting thread, which still has its        *)
(* frames.                                                                 *)
C36_Witness ==
    /\ calls # <<>>
    /\ Last(calls).loadres # NoEntry
    /\ Last(calls).loadres.op = "request_class_load"
    /\ Last(calls).loadres.ok
    /\ Last(calls).loadres.initialized
    /\ clinit_of(CM, Last(calls).loadres.id) # NoId
    /\ Last(calls).thread.stack # <<>>

(***************************************************************************)
(* How often a class initializer is started.                               *)
(***************************************************************************)
(* This step starts a class initializer in activation c: the init thread   *)
(* of the load gets the frame of <clinit>.                                 *)
ClinitStarts(c) ==
    /\ c <= Len(calls) /\ c <= Len(calls')
    /\ calls[c].initializing = NoId
    /\ calls'[c].initializing # NoId

(***************************************************************************)
(* C37: the <clinit> of a class is started at most once per class name,    *)
(* whatever get_or_resolve_class / request_class_load calls are made and   *)
(* whatever loads are requested while other classes are initialized: the   *)
(* initializer of a class starts only in the step that makes the entry of  *)
(* its name Loaded, and the entry of a name that is Loaded stays Loaded.   *)
(***************************************************************************)
C37_ClinitStartedAtMostOnce ==
    [][/\ \A c \in 1..Len(calls) :
             ClinitStarts(c)
                => /\ ~IsLoaded(get_class_by_name(CM,
                          entry_name(get_class_by_id(CM', calls'[c].initializing))))
                   /\ IsLoaded(get_class_by_name(CM',
                          entry_name(get_class_by_id(CM', calls'[c].initializing))))
                   /\ id_of_class(CM',
                          entry_name(get_class_by_id(CM', calls'[c].initializing)))
                         = calls'[c].initializing
       /\ \A n \in DOMAIN name_map :
             IsLoaded(get_class_by_name(CM, n))
                => /\ n \in DOMAIN name_map'
                   /\ IsLoaded(get_class_by_name(CM', n))]_vars

(* V's initializer has run, W was loaded by the load its `new W` requested *)
(* meanwhile, and a later request_class_load of V has returned Ok.         *)
C37_Witness ==
    /\ IsLoaded(get_class_by_name(CM, "V"))
    /\ get_class_by_name(CM, "V").initialized
    /\ IsLoaded(get_class_by_name(CM, "W"))
    /\ calls = <<>>
    /\ last # NoEntry
    /\ last.op = "request_class_load"
    /\ last.ok
    /\ last.id = id_of_class(CM, "V")

(***************************************************************************)
(* Return addresses.                                                       *)
(***************************************************************************)
(* Every frame below the top one of every thread has an                    *)
(* InvokationReturnAddress as the top slot of its operand stack.           *)
ReturnAddressBelowTop ==
    \A c \in 1..Len(calls) :
       \A f \in 1..(Len(calls[c].thread.stack) - 1) :
          /\ calls[c].thread.stack[f].operand_stack # <<>>
          /\ Last(calls[c].thread.stack[f].operand_stack).tag
                = "InvokationReturnAddress"

(* The frame the top frame of the running thread returns to. *)
InvokerFrame ==
    Last(calls).thread.stack[Len(Last(calls).thread.stack) - 1]

(***************************************************************************)
(* C38: return-address discipline.  Between instructions every frame below *)
(* the top of a thread's frame stack has an InvokationReturnAddress on top *)
(* of its operand stack, and when the frame above it returns that slot is  *)
(* the one consumed: the invoker goes on at the address it held, with the  *)
(* slot removed (and the returned value, if any, in its place).            *)
(***************************************************************************)
C38_ReturnAddressDiscipline ==
    /\ []ReturnAddressBelowTop
    /\ [][FramePopped
            => /\ Last(calls').thread.pc = Last(InvokerFrame.operand_stack).v
               /\ Last(calls').thread.stack
                     = [Front(Front(Last(calls).thread.stack)) \o <<InvokerFrame>>
                          EXCEPT ![Len(Last(calls).thread.stack) - 1].operand_stack =
                             IF AtOpcode(OP_RETURN)
                             THEN Front(InvokerFrame.operand_stack)
                             ELSE Append(Front(InvokerFrame.operand_stack),
                                         Last(OperandStack))]]_vars

(* main of class Main has called sum: its frame waits below the frame of   *)
(* sum with the return address on top, and sum is about to return 5.       *)
C38_Witness ==
    /\ RunningThread
    /\ Len(Last(calls).thread.stack) = 2
    /\ AtOpcode(OP_IRETURN)
    /\ OperandStack = <<Slot_Int(5)>>
    /\ Last(InvokerFrame.operand_stack).tag = "InvokationReturnAddress"

(***************************************************************************)
(* Termination of get_or_resolve_class.  The classes asked for are taken   *)
(* from the part of the class path that has no cycle of super classes and  *)
(* super interfaces and whose initializers end: W extends U extends V,     *)
(* where the initializer of V creates a W (a reference that is not a       *)
(* required dependency); C implements N, N extends S; H with its           *)
(* initializer; and a name the class path does not hold.  The loop of      *)
(* get_or_resolve_class and the instruction loop of Thread::execute run    *)
(* until they return: both steps are taken whenever they can be.           *)
(***************************************************************************)
AcyclicNames == {"W", "C", "H", "Nope"}

TerminationNext ==
    \/ \E class_name \in AcyclicNames :
          CallGetOrResolveClass(class_name) /\ VmOnly
    \/ \E class_id \in DOMAIN classes_by_id \cup {next_class_id} :
          CallRequestClassLoad(class_id) /\ VmOnly
    \/ LoaderStep /\ VmOnly
    \/ ThreadStep /\ VmOnly

TerminationSpec ==
    /\ Init
    /\ [][TerminationNext]_vars
    /\ WF_vars(LoaderStep /\ VmOnly)
    /\ WF_vars(ThreadStep /\ VmOnly)

(***************************************************************************)
(* C39: on a class path whose required-dependency graph has no cycle and   *)
(* whose initializers end, every get_or_resolve_class call (made directly  *)
(* or through request_class_load) returns Ok or Err after finitely many    *)
(* work-list steps, and the ids handed out stay below the number the class *)
(* table may hold.                                                         *)
(***************************************************************************)
C39_LoadTerminates ==
    /\ (calls # <<>>) ~> (calls = <<>> /\ last # NoEntry /\ last.tag = "Result")
    /\ [](next_class_id < MaxClassIds)

(* get_or_resolve_class("W") has returned Ok, with W and the classes it    *)
(* requires, U and V, Loaded.                                              *)
C39_Witness ==
    /\ calls = <<>>
    /\ last # NoEntry
    /\ last.op = "get_or_resolve_class" /\ last.arg = [name |-> "W"] /\ last.ok
    /\ \A n \in {"V", "U", "W"} : IsLoaded(get_class_by_name(CM, n))
    /\ get_class_by_name(CM, "W").initialized

(***************************************************************************)
(* The arguments a frame's locals hold: the cells that are not Tombstone,  *)
(* in order.  invoke_layout is where invoke puts them in fresh locals of   *)
(* the same length.                                                        *)
(***************************************************************************)
held_arguments(frame) ==
    SelectSeq(frame.local_variables, LAMBDA slot : slot.tag # "Tombstone")

invoke_layout(frame) ==
    place_args(Frame_new(frame.class, frame.method,
                         Len(frame.local_variables)).local_variables,
               held_arguments(frame), 1, 0).locals

(* create_thread has just made the thread of the new call. *)
ThreadCreated ==
    /\ calls = <<>>
    /\ calls' # <<>>
    /\ calls'[1].via = "execute_thread"

(***************************************************************************)
(* C40: the first frame of a thread made by create_thread holds the entry  *)
(* method's arguments as invoke lays them out for a callee: in order from  *)
(* cell 0, a narrow argument in one cell, a Long or Double argument in     *)
(* cell i with Tombstone in cell i + 1.                                    *)
(***************************************************************************)
C40_CreateThreadLaysOutLikeInvoke ==
    [][ThreadCreated =>
          current_frame(calls'[1].thread).local_variables
              = invoke_layout(current_frame(calls'[1].thread))]_vars

====
